---------------------------- MODULE Spec2Model ----------------------------
(***************************************************************************)
(* Model of the alx-backend-python repository:                             *)
(*   - Django-Middleware-0x03/chats/middleware.py: the time restriction    *)
(*     middleware and the per-IP sliding-window rate limiter;              *)
(*   - Django-signals_orm-0x04/messaging: the Message model and the        *)
(*     pre_save / post_save / post_delete signal handlers;                 *)
(*   - messaging_app/chats: the conversation and message viewsets;         *)
(*   - python-decorators-0x01: with_db_connection, transactional,          *)
(*     retry_on_failure and cache_query.                                   *)
(* Each subsystem has its own specification (SpecRate, SpecTime, SpecMsg,  *)
(* SpecChat, SpecRetry, SpecTx, SpecCache, and SpecRateThreads and         *)
(* SpecMsgThreads for requests handled in parallel); the variables of the  *)
(* other subsystems stay at their initial values.                          *)
(***************************************************************************)
EXTENDS Integers, Sequences, FiniteSets, TLC

VARIABLES
    rl_clock,       \* rate limiter: value timezone.now().timestamp() returns (seconds)
    rl_requests,    \* rate limiter: self._requests, ip -> deque of admitted timestamps
    rl_forwarded,   \* rate limiter: ip -> timestamps of its counted POSTs passed to get_response
    rl_last,        \* rate limiter: the request handled last and its response
    ta_config,      \* time restriction: <<open_hour, close_hour>> read from settings
    ta_now,         \* time restriction: local time of day, <<hour, minute>>
    ta_last,        \* time restriction: the request handled last and its response
    m_db,           \* messaging: the database and the connection's on_commit queue
    m_atomic,       \* messaging: settings ATOMIC_REQUESTS (each request in one transaction)
    m_open,         \* messaging: a request's transaction is open (body done, not committed)
    m_last,         \* messaging: the operation done last and what the database held before it
    m_written,      \* messaging: message id -> the contents stored for it, one after another
    c_db,           \* chats: conversations with their participants, messages, the clock
    c_last,         \* chats: the request handled last and its response
    rl_threads,     \* rate limiter: thread -> its position in __call__, its request, its now_ts
    m_threads,      \* messaging: thread -> its position in save(), its instance, what pre_save read
    d_pc,           \* decorators: position of the call in progress
    d_args,         \* decorators: the arguments of the call in progress
    conn,           \* decorators: the sqlite3 connection of with_db_connection's wrapper
    attempt,        \* decorators: retry_on_failure's attempt counter
    retries,        \* decorators: the retries argument of retry_on_failure
    users_db,       \* decorators: the users table of users.db
    query_cache,    \* decorators: the module's query_cache dictionary
    d_first,        \* decorators: (query, params) -> the rows its first call returned
    d_events,       \* decorators: what the call in progress has done so far, in order
    d_outcome       \* decorators: how the last call ended for its caller

rlVars == <<rl_clock, rl_requests, rl_forwarded, rl_last>>
taVars == <<ta_config, ta_now, ta_last>>
mVars == <<m_db, m_atomic, m_open, m_last, m_written>>
cVars == <<c_db, c_last>>
tVars == <<rl_threads, m_threads>>
dVars == <<d_pc, d_args, conn, attempt, retries, users_db, query_cache, d_first,
           d_events, d_outcome>>
vars == <<rl_clock, rl_requests, rl_forwarded, rl_last, ta_config, ta_now, ta_last,
          m_db, m_atomic, m_open, m_last, m_written, c_db, c_last, rl_threads, m_threads,
          d_pc, d_args, conn, attempt, retries, users_db, query_cache, d_first,
          d_events, d_outcome>>

Null == "null"

\* s contains p as a contiguous run of pieces: Python's `p in path` on strings
\* that are written as sequences of string pieces.
Contains(path, p) ==
    \E i \in 1..(Len(path) + 1) :
        /\ i + Len(p) - 1 <= Len(path)
        /\ SubSeq(path, i, i + Len(p) - 1) = p

(***************************************************************************)
(* OffensiveLanguageMiddleware (rate limiter)                              *)
(***************************************************************************)
max_messages == 5
window_seconds == 60
target_paths == << <<"/api", "/messages">> >>

\* Bounds of the rate limiter model.
MaxTime == 61
MaxForwarded == 7

\* Amounts by which the clock moves between two requests.
TickSteps == {30, 31}

MessagesPath == <<"/api", "/messages">>
NestedPath == <<"/v1", "/api", "/messages", "/7">>
ConversationsPath == <<"/api", "/conversations">>

\* A request as the middleware reads it: method, path, the X-Forwarded-For
\* header (NoHeader when absent, else its comma separated parts as written, before
\* strip()) and REMOTE_ADDR (Null when absent).
NoHeader == <<>>
Req(m, p, x, r) == [method |-> m, path |-> p, xff |-> x, remote |-> r]

RlRequests ==
    { Req("POST", MessagesPath, NoHeader, "10.0.0.1"),
      Req("post", NestedPath, <<" 10.0.0.1">>, "10.0.0.9"),
      Req("POST", MessagesPath, <<" ", "10.0.0.2 ", "10.0.0.1">>, "10.0.0.1"),
      Req("POST", MessagesPath, <<"">>, Null),
      Req("GET", MessagesPath, NoHeader, "10.0.0.1"),
      Req("POST", ConversationsPath, <<"10.0.0.2">>, "10.0.0.1"),
      Req("GET", <<"/api">>, NoHeader, Null) }

\* str.strip() on the header parts used above.
Strip(s) ==
    CASE s = " " -> ""
      [] s = " 10.0.0.1" -> "10.0.0.1"
      [] s = "10.0.0.2 " -> "10.0.0.2"
      [] OTHER -> s

\* str.upper() on the method names used above.
Upper(s) == IF s = "post" THEN "POST" ELSE IF s = "get" THEN "GET" ELSE s

SelectNonEmpty(parts) == SelectSeq(parts, LAMBDA x : x # "")

StripAll(parts) == [i \in 1..Len(parts) |-> Strip(parts[i])]

_is_target_path(path) ==
    \E i \in 1..Len(target_paths) :
        /\ target_paths[i] # <<>>
        /\ Contains(path, target_paths[i])

_get_client_ip(request) ==
    LET xff == request.xff
        parts == SelectNonEmpty(StripAll(xff))
    IN  IF xff # NoHeader /\ xff # <<"">> /\ parts # <<>>
        THEN parts[1]
        ELSE IF request.remote = Null THEN "unknown" ELSE request.remote

\* Variant of PopOlder that also drops a timestamp equal to the cutoff.
RECURSIVE PopOlder_inclusive(_, _)
PopOlder_inclusive(dq, cutoff) ==
    IF dq # <<>> /\ dq[1] <= cutoff THEN PopOlder_inclusive(Tail(dq), cutoff) ELSE dq

\* `while dq and dq[0] < cutoff: dq.popleft()`
RECURSIVE PopOlder(_, _)
PopOlder(dq, cutoff) ==
    IF dq # <<>> /\ dq[1] < cutoff THEN PopOlder(Tail(dq), cutoff) ELSE dq

\* `len(dq) >= self.max_messages`
LimitReached(dq) == Len(dq) >= max_messages

\* Variant of IsCounted that counts every method.
IsCounted_anyMethod(request) == _is_target_path(request.path)

\* `request.method.upper() == "POST" and self._is_target_path(request.path)`
IsCounted(request) == Upper(request.method) = "POST" /\ _is_target_path(request.path)

DequeOf(ip) == IF ip \in DOMAIN rl_requests THEN rl_requests[ip] ELSE <<>>

\* The counted requests of ip that reached get_response, by timestamp.
ForwardedOf(ip) == IF ip \in DOMAIN rl_forwarded THEN rl_forwarded[ip] ELSE <<>>

RECURSIVE SumLen(_, _)
SumLen(f, keys) ==
    IF keys = {} THEN 0
    ELSE LET k == CHOOSE x \in keys : TRUE IN Len(f[k]) + SumLen(f, keys \ {k})

ForwardedCount == SumLen(rl_forwarded, DOMAIN rl_forwarded)

\* What is recorded of a handled request: its method and path, the key it was
\* counted under (Null when it was not counted), the time it was handled, the
\* status of the answer and whether get_response was called.
Response(request, ip, status, forwarded) ==
    [method |-> request.method, path |-> request.path, ip |-> ip, ts |-> rl_clock,
     status |-> status, forwarded |-> forwarded]

\* Before any request was handled.
NoResponse ==
    [method |-> Null, path |-> <<>>, ip |-> Null, ts |-> 0, status |-> 0, forwarded |-> FALSE]

\* Variant of the handler that appends the timestamp of a rejected request too.
RateLimitCall_recordsRejected(request) ==
    IF IsCounted(request)
    THEN LET ip == _get_client_ip(request)
             now_ts == rl_clock
             cutoff == now_ts - window_seconds
             dq == PopOlder(DequeOf(ip), cutoff)
         IN  IF LimitReached(dq)
             THEN /\ rl_requests' = [k \in DOMAIN rl_requests \cup {ip} |->
                                        IF k = ip THEN Append(dq, now_ts) ELSE rl_requests[k]]
                  /\ rl_forwarded' = rl_forwarded
                  /\ rl_last' = Response(request, ip, 429, FALSE)
             ELSE /\ ForwardedCount < MaxForwarded
                  /\ rl_requests' = [k \in DOMAIN rl_requests \cup {ip} |->
                                        IF k = ip THEN Append(dq, now_ts) ELSE rl_requests[k]]
                  /\ rl_forwarded' = [k \in DOMAIN rl_forwarded \cup {ip} |->
                                         IF k = ip THEN Append(ForwardedOf(ip), now_ts)
                                                   ELSE rl_forwarded[k]]
                  /\ rl_last' = Response(request, ip, 200, TRUE)
    ELSE /\ rl_requests' = rl_requests
         /\ rl_forwarded' = rl_forwarded
         /\ rl_last' = Response(request, Null, 200, TRUE)

\* OffensiveLanguageMiddleware.__call__ on one request, the whole handler.
RateLimitCall(request) ==
    IF IsCounted(request)
    THEN LET ip == _get_client_ip(request)
             now_ts == rl_clock
             cutoff == now_ts - window_seconds
             dq == PopOlder(DequeOf(ip), cutoff)
         IN  IF LimitReached(dq)
             THEN /\ rl_requests' = [k \in DOMAIN rl_requests \cup {ip} |->
                                        IF k = ip THEN dq ELSE rl_requests[k]]
                  /\ rl_forwarded' = rl_forwarded
                  /\ rl_last' = Response(request, ip, 429, FALSE)
             ELSE /\ ForwardedCount < MaxForwarded
                  /\ rl_requests' = [k \in DOMAIN rl_requests \cup {ip} |->
                                        IF k = ip THEN Append(dq, now_ts) ELSE rl_requests[k]]
                  /\ rl_forwarded' = [k \in DOMAIN rl_forwarded \cup {ip} |->
                                         IF k = ip THEN Append(ForwardedOf(ip), now_ts)
                                                   ELSE rl_forwarded[k]]
                  /\ rl_last' = Response(request, ip, 200, TRUE)
    ELSE /\ rl_requests' = rl_requests
         /\ rl_forwarded' = rl_forwarded
         /\ rl_last' = Response(request, Null, 200, TRUE)

RlHandle ==
    /\ \E request \in RlRequests : RateLimitCall(request)
    /\ UNCHANGED <<rl_clock, taVars, mVars, cVars, tVars, dVars>>

\* The clock is non-decreasing: it moves between requests.
RlTick ==
    /\ \E d \in TickSteps :
          /\ rl_clock + d <= MaxTime
          /\ rl_clock' = rl_clock + d
    /\ UNCHANGED <<rl_requests, rl_forwarded, rl_last, taVars, mVars, cVars, tVars, dVars>>

(***************************************************************************)
(* OffensiveLanguageMiddleware called by several threads                   *)
(***************************************************************************)
\* The worker threads that call the one middleware instance.
RlThreads == {"A", "B"}

\* The requests the threads handle: POSTs of one client to the messages
\* endpoint and a request that is not counted.
RlThreadRequests ==
    { Req("POST", MessagesPath, NoHeader, "10.0.0.1"),
      Req("GET", MessagesPath, NoHeader, "10.0.0.1") }

\* A thread that is not inside __call__, and one that has read now_ts for
\* its counted request and has not yet entered `with self._lock`.
IdleThread == [pc |-> "idle", request |-> Req(Null, <<>>, NoHeader, Null), ip |-> Null, now_ts |-> 0]
TimedThread(request, now_ts) ==
    [pc |-> "timed", request |-> request, ip |-> _get_client_ip(request), now_ts |-> now_ts]

\* The threads that left the block under the lock with their timestamp
\* appended and have not yet called get_response.
AdmittedThreads == {t \in RlThreads : rl_threads[t].pc = "admitted"}

\* The block under `with self._lock` for thread t: it runs as one step, since
\* no other thread is inside the block at the same time. A rejected request
\* is answered from inside the block; an admitted one leaves the block, and
\* the lock, with its timestamp appended and get_response still to call.
LockedSection(t) ==
    LET th == rl_threads[t]
        ip == th.ip
        cutoff == th.now_ts - window_seconds
        dq == PopOlder(DequeOf(ip), cutoff)
    IN  IF LimitReached(dq)
        THEN /\ rl_requests' = [k \in DOMAIN rl_requests \cup {ip} |->
                                   IF k = ip THEN dq ELSE rl_requests[k]]
             /\ rl_last' = [Response(th.request, ip, 429, FALSE) EXCEPT !.ts = th.now_ts]
             /\ rl_threads' = [rl_threads EXCEPT ![t] = IdleThread]
        ELSE /\ ForwardedCount + Cardinality(AdmittedThreads) < MaxForwarded
             /\ rl_requests' = [k \in DOMAIN rl_requests \cup {ip} |->
                                   IF k = ip THEN Append(dq, th.now_ts) ELSE rl_requests[k]]
             /\ rl_last' = rl_last
             /\ rl_threads' = [rl_threads EXCEPT ![t].pc = "admitted"]

\* A thread enters __call__: a request that is not counted goes to
\* get_response; for a counted one the thread computes ip and reads now_ts.
RlThreadStart ==
    /\ \E t \in RlThreads, request \in RlThreadRequests :
          /\ rl_threads[t].pc = "idle"
          /\ IF IsCounted(request)
             THEN /\ rl_threads' = [rl_threads EXCEPT ![t] = TimedThread(request, rl_clock)]
                  /\ rl_last' = rl_last
             ELSE /\ rl_threads' = rl_threads
                  /\ rl_last' = Response(request, Null, 200, TRUE)
    /\ UNCHANGED <<rl_clock, rl_requests, rl_forwarded, m_threads>>
    /\ UNCHANGED <<taVars, mVars, cVars, dVars>>

\* A thread takes the lock and runs the block.
RlThreadLocked ==
    /\ \E t \in RlThreads :
          /\ rl_threads[t].pc = "timed"
          /\ LockedSection(t)
    /\ UNCHANGED <<rl_clock, rl_forwarded, m_threads>>
    /\ UNCHANGED <<taVars, mVars, cVars, dVars>>

\* A thread whose request was admitted calls get_response, outside the lock.
RlThreadForward ==
    /\ \E t \in AdmittedThreads :
          LET th == rl_threads[t]
          IN  /\ rl_forwarded' = [k \in DOMAIN rl_forwarded \cup {th.ip} |->
                                     IF k = th.ip THEN Append(ForwardedOf(th.ip), th.now_ts)
                                                  ELSE rl_forwarded[k]]
              /\ rl_last' = [Response(th.request, th.ip, 200, TRUE) EXCEPT !.ts = th.now_ts]
              /\ rl_threads' = [rl_threads EXCEPT ![t] = IdleThread]
    /\ UNCHANGED <<rl_clock, rl_requests, m_threads>>
    /\ UNCHANGED <<taVars, mVars, cVars, dVars>>

(***************************************************************************)
(* RestrictAccessByTimeMiddleware                                          *)
(***************************************************************************)
restricted_paths == << <<"/api", "/messages">>, <<"/api", "/conversations">> >>

DefaultHours == <<6, 21>>
\* Values of (CHAT_ACCESS_OPEN_HOUR, CHAT_ACCESS_CLOSE_HOUR) tried.
HourConfigs == { DefaultHours, <<9, 17>>, <<0, 23>>, <<22, 5>>, <<8, 8>> }

Minutes == {0, 30, 59}
TaPaths == { MessagesPath,
             <<"/v1", "/api", "/conversations", "/7">>,
             <<"/api">>,
             <<"/admin", "/messages">> }

\* Order of datetime.time values <<hour, minute>>.
TimeLess(a, b) == a[1] < b[1] \/ (a[1] = b[1] /\ a[2] < b[2])
TimeLeq(a, b) == a = b \/ TimeLess(a, b)

open_time == <<ta_config[1], 0>>
close_time == <<ta_config[2], 0>>

_is_path_restricted(path) ==
    \E i \in 1..Len(restricted_paths) :
        /\ restricted_paths[i] # <<>>
        /\ Contains(path, restricted_paths[i])

\* Variant of _is_within_allowed_hours with the closing time included.
_is_within_allowed_hours_closed(now_time) ==
    IF TimeLess(open_time, close_time)
    THEN TimeLeq(open_time, now_time) /\ TimeLeq(now_time, close_time)
    ELSE TimeLeq(open_time, now_time) \/ TimeLess(now_time, close_time)

_is_within_allowed_hours(now_time) ==
    IF TimeLess(open_time, close_time)
    THEN TimeLeq(open_time, now_time) /\ TimeLess(now_time, close_time)
    ELSE TimeLeq(open_time, now_time) \/ TimeLess(now_time, close_time)

\* Before any request was handled.
TaNoResponse == [path |-> <<>>, now |-> <<0, 0>>, status |-> 0, forwarded |-> FALSE]

\* RestrictAccessByTimeMiddleware.__call__ on one request.
RestrictCall(path) ==
    IF _is_path_restricted(path) /\ ~_is_within_allowed_hours(ta_now)
    THEN ta_last' = [path |-> path, now |-> ta_now, status |-> 403, forwarded |-> FALSE]
    ELSE ta_last' = [path |-> path, now |-> ta_now, status |-> 200, forwarded |-> TRUE]

TaHandle ==
    /\ \E path \in TaPaths : RestrictCall(path)
    /\ UNCHANGED <<ta_config, ta_now, rlVars, mVars, cVars, tVars, dVars>>

\* The wall clock moves to any other time of day.
TaTick ==
    /\ \E h \in 0..23, m \in Minutes : ta_now' = <<h, m>>
    /\ ta_now' # ta_now
    /\ UNCHANGED <<ta_config, ta_last, rlVars, mVars, cVars, tVars, dVars>>

(***************************************************************************)
(* messaging app: Message model and signal handlers                        *)
(***************************************************************************)
\* Bounds of the messaging model.
MaxMessages == 2
MaxEdits == 2

MsgUsers == {"alice", "bob", "carol"}
Contents == {"original", "edited content"}

NoId == 0       \* a null foreign key to Message, or an unsaved instance's pk
NoTime == 0     \* a null DateTimeField

\* Message(...) with the defaults of the model's fields.
NewInstance(sender, receiver, content, parent) ==
    [sender |-> sender, receiver |-> receiver, content |-> content,
     parent_message |-> parent, thread_root |-> NoId,
     edited |-> FALSE, last_edited_at |-> NoTime, last_edited_by |-> Null]

NoRow == NewInstance(Null, Null, "", NoId)

\* Notification(user=..., message=...): is_read defaults to False.
NewNotification(user, message) == [user |-> user, message |-> message, is_read |-> FALSE]

EmptyDb ==
    [users |-> MsgUsers, messages |-> <<>>, notifications |-> <<>>, history |-> <<>>,
     nextId |-> 1, now |-> 1, onCommit |-> <<>>]

\* Messages removed with the messages of S: Message.parent_message and
\* Message.thread_root are on_delete=CASCADE.
RECURSIVE CascadeClosure(_, _)
CascadeClosure(messages, S) ==
    LET more == {i \in DOMAIN messages :
                    messages[i].parent_message \in S \/ messages[i].thread_root \in S}
    IN  IF more \subseteq S THEN S ELSE CascadeClosure(messages, S \cup more)

Restrict(f, D) == [i \in D |-> f[i]]

\* Rows that reference a deleted message go with it: Notification.message and
\* MessageHistory.message are on_delete=CASCADE.
CascadeDependents(db, gone) ==
    [db EXCEPT !.notifications = SelectSeq(@, LAMBDA n : n.message \notin gone),
               !.history = SelectSeq(@, LAMBDA h : h.message \notin gone)]

\* Deleting the messages of `ids` through the ORM (QuerySet.delete or the
\* collector of Model.delete), with the cascade over replies and threads.
DeleteMessages(db, ids) ==
    LET gone == CascadeClosure(db.messages, ids)
    IN  CascadeDependents(
            [db EXCEPT !.messages = Restrict(@, DOMAIN @ \ gone)], gone)

\* The user's rows in the tables of the missing models: Notification.user is
\* on_delete=CASCADE, MessageHistory.editor is on_delete=SET_NULL.
CascadeUserDependents(db, u) ==
    [db EXCEPT !.notifications = SelectSeq(@, LAMBDA n : n.user # u),
               !.history = [i \in DOMAIN @ |->
                               IF @[i].editor = u THEN [@[i] EXCEPT !.editor = Null]
                                                  ELSE @[i]]]

\* Variant of CascadeUser in which Message.receiver does not cascade.
CascadeUser_senderOnly(db, u) ==
    LET d1 == DeleteMessages(db, {i \in DOMAIN db.messages : db.messages[i].sender = u})
        d2 == [d1 EXCEPT !.messages = [i \in DOMAIN @ |->
                              IF @[i].last_edited_by = u
                              THEN [@[i] EXCEPT !.last_edited_by = Null] ELSE @[i]]]
    IN  d2

\* Message's foreign keys to User: sender and receiver are on_delete=CASCADE,
\* last_edited_by is on_delete=SET_NULL.
CascadeUser(db, u) ==
    LET d1 == DeleteMessages(db, {i \in DOMAIN db.messages :
                                     db.messages[i].sender = u \/ db.messages[i].receiver = u})
        d2 == [d1 EXCEPT !.messages = [i \in DOMAIN @ |->
                              IF @[i].last_edited_by = u
                              THEN [@[i] EXCEPT !.last_edited_by = Null] ELSE @[i]]]
    IN  d2

\* _create_notification, the callback of create_notification_on_new_message.
\* The INSERT fails when the message or the receiver is gone.
_create_notification(db, cb) ==
    IF cb.pk \in DOMAIN db.messages /\ cb.user \in db.users
    THEN [db EXCEPT !.notifications = Append(@, NewNotification(cb.user, cb.pk))]
    ELSE db

\* _cleanup, the callback of cleanup_user_related_data; pk is instance.pk as
\* read when the callback runs. filter(field=None) matches the rows whose
\* field is null.
_cleanup(db, pk) ==
    LET d1 == [db EXCEPT !.notifications = SelectSeq(@, LAMBDA n : n.user # pk)]
        d2 == DeleteMessages(d1, {i \in DOMAIN d1.messages : d1.messages[i].sender = pk})
        d3 == DeleteMessages(d2, {i \in DOMAIN d2.messages : d2.messages[i].receiver = pk})
    IN  [d3 EXCEPT !.history = [i \in DOMAIN @ |->
                                   IF @[i].editor = pk THEN [@[i] EXCEPT !.editor = Null]
                                                       ELSE @[i]]]

\* One callback registered with transaction.on_commit. `deferred` says that it
\* runs at the commit of an enclosing transaction: Model.delete() has by then
\* reset the deleted instance's pk to None.
RunCallback(db, cb, deferred) ==
    IF cb.kind = "notify"
    THEN _create_notification(db, cb)
    ELSE _cleanup(db, IF deferred THEN Null ELSE cb.user)

\* transaction.on_commit(func): run at once in autocommit mode, else queued
\* until the transaction commits.
on_commit(db, cb, autocommit) ==
    IF autocommit THEN RunCallback(db, cb, FALSE)
    ELSE [db EXCEPT !.onCommit = Append(@, cb)]

\* Variant of create_notification_on_new_message without the `created` test.
create_notification_on_new_message_everySave(db, pk, instance, created, autocommit) ==
    IF instance.sender = instance.receiver THEN db
    ELSE on_commit(db, [kind |-> "notify", pk |-> pk, user |-> instance.receiver], autocommit)

\* Variant of create_notification_on_new_message without the sender = receiver test.
create_notification_on_new_message_toSelf(db, pk, instance, created, autocommit) ==
    IF ~created THEN db
    ELSE on_commit(db, [kind |-> "notify", pk |-> pk, user |-> instance.receiver], autocommit)

\* post_save receiver of Message.
create_notification_on_new_message(db, pk, instance, created, autocommit) ==
    IF ~created THEN db
    ELSE IF instance.sender = instance.receiver THEN db
    ELSE on_commit(db, [kind |-> "notify", pk |-> pk, user |-> instance.receiver], autocommit)

\* Variant of log_message_edit_history that records the content being saved.
log_message_edit_history_newContent(db, pk, instance, editorAttr) ==
    IF pk = NoId \/ pk \notin DOMAIN db.messages
    THEN [db |-> db, instance |-> instance]
    ELSE LET previous == db.messages[pk]
             editor == IF editorAttr # Null THEN editorAttr ELSE instance.last_edited_by
         IN  IF previous.content = instance.content
             THEN [db |-> db, instance |-> instance]
             ELSE [db |-> [db EXCEPT
                             !.history = Append(@, [message |-> pk,
                                                    old_content |-> instance.content,
                                                    edited_at |-> db.now,
                                                    editor |-> editor]),
                             !.now = @ + 1],
                   instance |-> [instance EXCEPT
                                   !.edited = TRUE,
                                   !.last_edited_at = db.now,
                                   !.last_edited_by = IF editor # Null THEN editor ELSE @]]

\* Variant of log_message_edit_history without the test for unchanged content.
log_message_edit_history_always(db, pk, instance, editorAttr) ==
    IF pk = NoId \/ pk \notin DOMAIN db.messages
    THEN [db |-> db, instance |-> instance]
    ELSE LET previous == db.messages[pk]
             editor == IF editorAttr # Null THEN editorAttr ELSE instance.last_edited_by
         IN  [db |-> [db EXCEPT
                        !.history = Append(@, [message |-> pk,
                                               old_content |-> previous.content,
                                               edited_at |-> db.now,
                                               editor |-> editor]),
                        !.now = @ + 1],
              instance |-> [instance EXCEPT
                              !.edited = TRUE,
                              !.last_edited_at = db.now,
                              !.last_edited_by = IF editor # Null THEN editor ELSE @]]

\* Variant of log_message_edit_history that logs the first edit of a message only.
log_message_edit_history_onceOnly(db, pk, instance, editorAttr) ==
    IF pk = NoId \/ pk \notin DOMAIN db.messages
    THEN [db |-> db, instance |-> instance]
    ELSE LET previous == db.messages[pk]
             editor == IF editorAttr # Null THEN editorAttr ELSE instance.last_edited_by
         IN  IF previous.content = instance.content \/ previous.edited
             THEN [db |-> db, instance |-> instance]
             ELSE [db |-> [db EXCEPT
                             !.history = Append(@, [message |-> pk,
                                                    old_content |-> previous.content,
                                                    edited_at |-> db.now,
                                                    editor |-> editor]),
                             !.now = @ + 1],
                   instance |-> [instance EXCEPT
                                   !.edited = TRUE,
                                   !.last_edited_at = db.now,
                                   !.last_edited_by = IF editor # Null THEN editor ELSE @]]

\* pre_save receiver of Message. pk is instance.pk (NoId before the first
\* save), editorAttr the transient instance._editor (Null when not attached).
\* Returns the database and the instance as the handler leaves them.
log_message_edit_history(db, pk, instance, editorAttr) ==
    IF pk = NoId \/ pk \notin DOMAIN db.messages
    THEN [db |-> db, instance |-> instance]
    ELSE LET previous == db.messages[pk]
             editor == IF editorAttr # Null THEN editorAttr ELSE instance.last_edited_by
         IN  IF previous.content = instance.content
             THEN [db |-> db, instance |-> instance]
             ELSE [db |-> [db EXCEPT
                             !.history = Append(@, [message |-> pk,
                                                    old_content |-> previous.content,
                                                    edited_at |-> db.now,
                                                    editor |-> editor]),
                             !.now = @ + 1],
                   instance |-> [instance EXCEPT
                                   !.edited = TRUE,
                                   !.last_edited_at = db.now,
                                   !.last_edited_by = IF editor # Null THEN editor ELSE @]]

\* models.Model.save as Message.save calls it through super(): pre_save, the
\* INSERT or UPDATE (of every field, or of thread_root alone), post_save.
ModelSave(db, pk, instance, editorAttr, onlyThreadRoot, autocommit) ==
    LET pre == log_message_edit_history(db, pk, instance, editorAttr)
        created == pk = NoId
        newPk == IF created THEN pre.db.nextId ELSE pk
        row == IF onlyThreadRoot
               THEN [pre.db.messages[pk] EXCEPT !.thread_root = pre.instance.thread_root]
               ELSE pre.instance
        written == [pre.db EXCEPT
                      !.messages = [i \in DOMAIN @ \cup {newPk} |->
                                       IF i = newPk THEN row ELSE @[i]],
                      !.nextId = IF created THEN @ + 1 ELSE @]
    IN  [db |-> create_notification_on_new_message(written, newPk, pre.instance,
                                                   created, autocommit),
         pk |-> newPk,
         instance |-> pre.instance]

\* Message.save: thread_root of a reply comes from its parent; a root message
\* is saved a second time with thread_root = itself.
Message_save(db, pk, instance, editorAttr, autocommit) ==
    LET parent == instance.parent_message
        self1 == IF parent # NoId
                 THEN [instance EXCEPT !.thread_root =
                          IF db.messages[parent].thread_root # NoId
                          THEN db.messages[parent].thread_root ELSE parent]
                 ELSE instance
        s1 == ModelSave(db, pk, self1, editorAttr, FALSE, autocommit)
    IN  IF s1.instance.parent_message = NoId /\ s1.instance.thread_root = NoId
        THEN ModelSave(s1.db, s1.pk, [s1.instance EXCEPT !.thread_root = s1.pk],
                       editorAttr, TRUE, autocommit)
        ELSE s1

\* cleanup_user_related_data, the post_delete receiver of User.
cleanup_user_related_data(db, u, autocommit) ==
    on_commit(db, [kind |-> "cleanup", pk |-> NoId, user |-> u], autocommit)

\* user.delete(): the collector deletes the user with everything that
\* cascades from it, then post_delete is sent.
User_delete(db, u, autocommit) ==
    LET d1 == CascadeUserDependents(CascadeUser(db, u), u)
        d2 == [d1 EXCEPT !.users = @ \ {u}]
    IN  cleanup_user_related_data(d2, u, autocommit)

\* The commit of the open transaction runs the queued callbacks in order.
RECURSIVE RunCommitHooks(_)
RunCommitHooks(db) ==
    IF db.onCommit = <<>> THEN db
    ELSE RunCommitHooks(
            RunCallback([db EXCEPT !.onCommit = Tail(@)], Head(db.onCommit), TRUE))

\* What m_last records of an operation.
Last(op, pk, user, content, editor, before) ==
    [op |-> op, pk |-> pk, user |-> user, content |-> content, editor |-> editor,
     before |-> before]

\* What the tables held before an operation: all of it (before a deletion),
\* or the one message row with the history table (before an edit).
NoSnapshot == [messages |-> <<>>, notifications |-> <<>>, history |-> <<>>]
Snapshot(db) ==
    [messages |-> db.messages, notifications |-> db.notifications, history |-> db.history]
RowSnapshot(db, pk) ==
    [messages |-> Restrict(db.messages, {pk}), notifications |-> <<>>,
     history |-> db.history]

NoLast == Last("none", NoId, Null, "", Null, NoSnapshot)

\* The record of the contents written: a new row starts its list, a row whose
\* stored content changed extends it, a deleted row drops out.
Written(before, after, w) ==
    [i \in DOMAIN after.messages |->
        IF i \notin DOMAIN before.messages THEN <<after.messages[i].content>>
        ELSE IF after.messages[i].content # before.messages[i].content
             THEN Append(w[i], after.messages[i].content)
             ELSE w[i]]

\* create_message: Message.objects.create(sender=request.user, receiver=...,
\* content=..., parent_message=...).
MsgCreate ==
    /\ ~m_open
    /\ m_db.nextId <= MaxMessages
    /\ \E sender \in m_db.users, receiver \in m_db.users, content \in Contents,
          parent \in DOMAIN m_db.messages \cup {NoId} :
          LET s == Message_save(m_db, NoId, NewInstance(sender, receiver, content, parent),
                                Null, ~m_atomic)
          IN  /\ m_db' = s.db
              /\ m_last' = Last("create", s.pk, sender, content, Null, NoSnapshot)
    /\ m_open' = m_atomic
    /\ m_written' = Written(m_db, m_db', m_written)
    /\ UNCHANGED <<m_atomic, rlVars, taVars, cVars, tVars, dVars>>

\* An edit: the stored message is loaded, its content set, the editor
\* attached as _editor (or not) and the instance saved.
MsgEdit ==
    /\ ~m_open
    /\ m_db.now <= MaxEdits
    /\ \E pk \in DOMAIN m_db.messages, content \in Contents,
          editor \in m_db.users \cup {Null} :
          LET instance == [m_db.messages[pk] EXCEPT !.content = content]
              s == Message_save(m_db, pk, instance, editor, ~m_atomic)
          IN  /\ m_db' = s.db
              /\ m_last' = Last("edit", pk, Null, content, editor, RowSnapshot(m_db, pk))
    /\ m_open' = m_atomic
    /\ m_written' = Written(m_db, m_db', m_written)
    /\ UNCHANGED <<m_atomic, rlVars, taVars, cVars, tVars, dVars>>

\* delete_user: request.user.delete().
MsgDeleteUser ==
    /\ ~m_open
    /\ \E u \in m_db.users :
          /\ m_db' = User_delete(m_db, u, ~m_atomic)
          /\ m_last' = Last("delete", NoId, u, "", Null, Snapshot(m_db))
    /\ m_open' = m_atomic
    /\ m_written' = Written(m_db, m_db', m_written)
    /\ UNCHANGED <<m_atomic, rlVars, taVars, cVars, tVars, dVars>>

\* The request's transaction commits.
MsgCommit ==
    /\ m_open
    /\ m_db' = RunCommitHooks(m_db)
    /\ m_open' = FALSE
    /\ m_written' = Written(m_db, m_db', m_written)
    /\ UNCHANGED <<m_last, m_atomic, rlVars, taVars, cVars, tVars, dVars>>

(***************************************************************************)
(* messaging app: edits of one message by requests handled in parallel     *)
(***************************************************************************)
\* The most edits the two requests make together.
MaxThreadEdits == 3

\* The requests that edit in parallel, and the message they edit.
MsgThreads == {"T1", "T2"}
EditedPk == 1

\* A request that is not editing. Its fields while it edits: the instance it
\* loaded and changed, the _editor it attached, the row that pre_save read,
\* and the number of UPDATEs it has made.
IdleEdit(updates) ==
    [pc |-> "idle", instance |-> NoRow, editor |-> Null, previous |-> NoRow,
     updates |-> updates]

\* The view loads the message, sets the new content and attaches _editor.
MsgThreadLoad ==
    /\ \E t \in MsgThreads, content \in Contents, editor \in m_db.users :
          /\ m_threads[t].pc = "idle"
          /\ m_threads["T1"].updates + m_threads["T2"].updates
                + Cardinality({u \in MsgThreads : m_threads[u].pc # "idle"})
                < MaxThreadEdits
          /\ m_threads' = [m_threads EXCEPT ![t] =
                [@ EXCEPT !.pc = "loaded",
                          !.instance = [m_db.messages[EditedPk] EXCEPT !.content = content],
                          !.editor = editor]]
    /\ UNCHANGED <<m_db, m_atomic, m_open, m_last, m_written, rl_threads>>
    /\ UNCHANGED <<rlVars, taVars, cVars, dVars>>

\* save() sends pre_save; the handler reads the stored row:
\* previous = Message.objects.get(pk=instance.pk).
MsgThreadRead ==
    /\ \E t \in MsgThreads :
          /\ m_threads[t].pc = "loaded"
          /\ m_threads' = [m_threads EXCEPT ![t] =
                [@ EXCEPT !.pc = "read", !.previous = m_db.messages[EditedPk]]]
    /\ UNCHANGED <<m_db, m_atomic, m_open, m_last, m_written, rl_threads>>
    /\ UNCHANGED <<rlVars, taVars, cVars, dVars>>

\* The rest of the handler, on the row it read: the history row is inserted
\* (autocommit) and the instance marked as edited, or nothing is done.
MsgThreadLog ==
    /\ \E t \in MsgThreads :
          /\ m_threads[t].pc = "read"
          /\ LET th == m_threads[t]
                 seen == [m_db EXCEPT !.messages[EditedPk] = th.previous]
                 r == log_message_edit_history(seen, EditedPk, th.instance, th.editor)
             IN  /\ m_db' = [m_db EXCEPT !.history = r.db.history, !.now = r.db.now]
                 /\ m_threads' = [m_threads EXCEPT ![t] =
                       [@ EXCEPT !.pc = "logged", !.instance = r.instance]]
    /\ UNCHANGED <<m_atomic, m_open, m_last, m_written, rl_threads>>
    /\ UNCHANGED <<rlVars, taVars, cVars, dVars>>

\* The UPDATE of save(): every column is written from the instance.
MsgThreadUpdate ==
    /\ \E t \in MsgThreads :
          /\ m_threads[t].pc = "logged"
          /\ m_db' = [m_db EXCEPT !.messages[EditedPk] = m_threads[t].instance]
          /\ m_last' = Last("edit", EditedPk, Null, m_threads[t].instance.content,
                            m_threads[t].editor, NoSnapshot)
          /\ m_threads' = [m_threads EXCEPT ![t] = IdleEdit(@.updates + 1)]
    /\ m_written' = Written(m_db, m_db', m_written)
    /\ UNCHANGED <<m_atomic, m_open, rl_threads>>
    /\ UNCHANGED <<rlVars, taVars, cVars, dVars>>

(***************************************************************************)
(* chats app: ConversationViewSet and MessageViewSet                       *)
(***************************************************************************)
\* Bounds of the chats model.
MaxConvs == 2
MaxChatMessages == 2

ChatUsers == {"u1", "u2", "u3"}
Anonymous == "anonymous"
UnknownUser == "nobody"     \* a pk that no User row has

\* len(value) > 2000 in validate_message_body
MaxBodyLen == 2000

is_authenticated(user) == user # Anonymous

EmptyChatDb == [convs |-> <<>>, messages |-> <<>>, clock |-> 1]

\* A primary key is the position of its row in the table, and no key is given
\* twice: a row that was deleted leaves its position to these values. A stored
\* conversation always has participants (validate_participant_ids).
DeletedConv == {}
DeletedMessage == [sender |-> Null, conversation |-> NoId,
                   message_body |-> [len |-> 0, blank |-> TRUE], sent_at |-> 0]

\* Conversation.objects.all() and Message.objects.all(), as primary keys.
Conversation_objects(db) == {k \in DOMAIN db.convs : db.convs[k] # DeletedConv}
Message_objects(db) == {i \in DOMAIN db.messages : db.messages[i] # DeletedMessage}

\* The `conversation` query parameter: absent, or a string that is or is not
\* a UUID; id is the conversation the UUID names (NoId: none).
NoParam == [given |-> FALSE, uuid |-> FALSE, id |-> NoId]
UuidParam(k) == [given |-> TRUE, uuid |-> TRUE, id |-> k]
BadParam == [given |-> TRUE, uuid |-> FALSE, id |-> NoId]

\* order_by("sent_at") on the rows S of the message table: every order that
\* sorts them by sent_at; rows with equal sent_at may come in any order.
SortedOrders(messages, S) ==
    {o \in [1..Cardinality(S) -> S] :
        /\ \A i, j \in 1..Cardinality(S) : i # j => o[i] # o[j]
        /\ \A i, j \in 1..Cardinality(S) :
              i < j => messages[o[i]].sent_at <= messages[o[j]].sent_at}

\* Variant of get_queryset without the filter on the participants.
Message_get_queryset_all(db, user, param) ==
    IF ~is_authenticated(user) THEN [error |-> FALSE, rows |-> {}]
    ELSE LET qs == Message_objects(db)
         IN  IF param.given
             THEN IF ~param.uuid THEN [error |-> TRUE, rows |-> {}]
                  ELSE [error |-> FALSE,
                        rows |-> {i \in qs : db.messages[i].conversation = param.id}]
             ELSE [error |-> FALSE, rows |-> qs]

\* MessageViewSet.get_queryset: the rows selected (positions in the message
\* table), or the ValidationError for a parameter that is no UUID.
Message_get_queryset(db, user, param) ==
    IF ~is_authenticated(user) THEN [error |-> FALSE, rows |-> {}]
    ELSE LET qs == {i \in Message_objects(db) :
                       user \in db.convs[db.messages[i].conversation]}
         IN  IF param.given
             THEN IF ~param.uuid THEN [error |-> TRUE, rows |-> {}]
                  ELSE [error |-> FALSE,
                        rows |-> {i \in qs : db.messages[i].conversation = param.id}]
             ELSE [error |-> FALSE, rows |-> qs]

\* validate_message_body; a body is given by its length and whether strip()
\* leaves nothing of it.
validate_message_body(body) == ~body.blank /\ body.len > 0 /\ body.len <= MaxBodyLen

\* MessageSerializer.is_valid: conversation must name a conversation,
\* sender_id (optional, NoSender when absent) a user, the body must validate.
NoSender == "absent"
Message_is_valid(db, data) ==
    /\ data.conversation \in Conversation_objects(db)
    /\ data.sender_id \in ChatUsers \cup {NoSender}
    /\ validate_message_body(data.message_body)

\* MessageSerializer.create on the validated data: the sender given, else
\* request.user.
MessageSerializer_create(db, validated, user, d) ==
    LET sender == IF validated.sender # NoSender THEN validated.sender ELSE user
    IN  [db EXCEPT !.messages = Append(@, [sender |-> sender,
                                           conversation |-> validated.conversation,
                                           message_body |-> validated.message_body,
                                           sent_at |-> db.clock + d]),
                   !.clock = @ + d]

\* Variant of perform_create whose save() does not pass the sender.
Message_perform_create_payloadSender(db, data, user, d) ==
    IF user \notin db.convs[data.conversation]
    THEN [status |-> 403, db |-> db]
    ELSE [status |-> 201,
          db |-> MessageSerializer_create(db,
                    [sender |-> data.sender_id, conversation |-> data.conversation,
                     message_body |-> data.message_body], user, d)]

\* MessageViewSet.perform_create: PermissionDenied unless request.user is a
\* participant, else serializer.save(sender=user), whose keyword overrides the
\* sender of the validated data.
Message_perform_create(db, data, user, d) ==
    IF user \notin db.convs[data.conversation]
    THEN [status |-> 403, db |-> db]
    ELSE [status |-> 201,
          db |-> MessageSerializer_create(db,
                    [sender |-> user, conversation |-> data.conversation,
                     message_body |-> data.message_body], user, d)]

\* POST /messages/: IsAuthenticated, is_valid(raise_exception=True),
\* perform_create. d is the time gone by since the last message was stored.
Message_create(db, data, user, d) ==
    IF ~is_authenticated(user) THEN [status |-> 401, db |-> db]
    ELSE IF ~Message_is_valid(db, data) THEN [status |-> 400, db |-> db]
    ELSE Message_perform_create(db, data, user, d)

\* ConversationSerializer.validate_participant_ids on the users found.
validate_participant_ids_noUnique(value) ==
    Len(value) >= 2

validate_participant_ids(value) ==
    /\ Len(value) >= 2
    /\ Cardinality({value[i] : i \in 1..Len(value)}) = Len(value)

\* A primary key written in capitals: uuid.UUID parses it to the same key,
\* while str(p) in the view leaves the text as it was sent.
UpperU1 == "U1"

\* PrimaryKeyRelatedField.to_internal_value: the user a payload id names.
ToUser(id) == IF id = UpperU1 THEN "u1" ELSE id

\* ConversationViewSet.create: str(request.user.pk) is appended to
\* participant_ids when no id of the payload equals it as text, every id must
\* name a user, validate_participant_ids runs on the users named, then
\* ConversationSerializer.create sets the participants.
Conversation_create(db, participant_ids, user) ==
    IF ~is_authenticated(user) THEN [status |-> 401, db |-> db]
    ELSE LET ids == IF \E i \in 1..Len(participant_ids) : participant_ids[i] = user
                    THEN participant_ids ELSE Append(participant_ids, user)
             value == [i \in 1..Len(ids) |-> ToUser(ids[i])]
         IN  IF \E i \in 1..Len(value) : value[i] \notin ChatUsers
             THEN [status |-> 400, db |-> db]
             ELSE IF ~validate_participant_ids(value) THEN [status |-> 400, db |-> db]
             ELSE [status |-> 201,
                   db |-> [db EXCEPT !.convs =
                              Append(@, {value[i] : i \in 1..Len(value)})]]

\* ConversationViewSet.get_queryset, as primary keys.
Conversation_get_queryset(db, user) ==
    IF ~is_authenticated(user) THEN {}
    ELSE {k \in Conversation_objects(db) : user \in db.convs[k]}

\* PUT or PATCH /conversations/<pk>/ (ModelViewSet.update): IsAuthenticated,
\* get_object on get_queryset (Http404), is_valid, where participant_ids is
\* required unless the update is partial, then ConversationSerializer.update,
\* which sets the participants to the users named when the field was given.
\* Nothing of ConversationViewSet.create runs: the requester is not added.
Conversation_update(db, data, user) ==
    IF ~is_authenticated(user) THEN [status |-> 401, db |-> db]
    ELSE IF data.pk \notin Conversation_get_queryset(db, user)
         THEN [status |-> 404, db |-> db]
    ELSE IF "participant_ids" \notin data.fields
         THEN [status |-> IF data.partial THEN 200 ELSE 400, db |-> db]
    ELSE LET ids == data.participant_ids
             value == [i \in 1..Len(ids) |-> ToUser(ids[i])]
         IN  IF \E i \in 1..Len(value) : value[i] \notin ChatUsers
             THEN [status |-> 400, db |-> db]
             ELSE IF ~validate_participant_ids(value) THEN [status |-> 400, db |-> db]
             ELSE [status |-> 200,
                   db |-> [db EXCEPT !.convs[data.pk] =
                              {value[i] : i \in 1..Len(value)}]]

\* DELETE /conversations/<pk>/ (ModelViewSet.destroy): the conversation goes,
\* and with it the messages whose conversation it is (on_delete=CASCADE).
Conversation_destroy(db, pk, user) ==
    IF ~is_authenticated(user) THEN [status |-> 401, db |-> db]
    ELSE IF pk \notin Conversation_get_queryset(db, user)
         THEN [status |-> 404, db |-> db]
    ELSE [status |-> 204,
          db |-> [db EXCEPT !.convs[pk] = DeletedConv,
                            !.messages = [i \in DOMAIN db.messages |->
                                IF db.messages[i].conversation = pk
                                THEN DeletedMessage ELSE db.messages[i]]]]

\* MessageSerializer.is_valid on the payload of a PUT or PATCH: conversation
\* and message_body are required unless the update is partial; a field given
\* is validated as in a POST.
Message_update_is_valid(db, data) ==
    /\ data.partial \/ {"conversation", "message_body"} \subseteq data.fields
    /\ "conversation" \in data.fields => data.conversation \in Conversation_objects(db)
    /\ data.sender_id \in ChatUsers \cup {NoSender}
    /\ "message_body" \in data.fields => validate_message_body(data.message_body)

\* PUT or PATCH /messages/<pk>/ (ModelViewSet.update): IsAuthenticated,
\* get_object on get_queryset (Http404), is_valid, then ModelSerializer.update
\* sets each field given: sender (from sender_id), conversation, message_body.
\* perform_create does not run: no membership test, no sender=request.user.
Message_update(db, data, user) ==
    IF ~is_authenticated(user) THEN [status |-> 401, db |-> db]
    ELSE IF data.pk \notin Message_get_queryset(db, user, NoParam).rows
         THEN [status |-> 404, db |-> db]
    ELSE IF ~Message_update_is_valid(db, data) THEN [status |-> 400, db |-> db]
    ELSE LET old == db.messages[data.pk]
         IN  [status |-> 200,
              db |-> [db EXCEPT !.messages[data.pk] =
                 [sender |-> IF data.sender_id # NoSender THEN data.sender_id
                             ELSE old.sender,
                  conversation |-> IF "conversation" \in data.fields
                                   THEN data.conversation ELSE old.conversation,
                  message_body |-> IF "message_body" \in data.fields
                                   THEN data.message_body ELSE old.message_body,
                  sent_at |-> old.sent_at]]]

\* DELETE /messages/<pk>/ (ModelViewSet.destroy).
Message_destroy(db, pk, user) ==
    IF ~is_authenticated(user) THEN [status |-> 401, db |-> db]
    ELSE IF pk \notin Message_get_queryset(db, user, NoParam).rows
         THEN [status |-> 404, db |-> db]
    ELSE [status |-> 204, db |-> [db EXCEPT !.messages[pk] = DeletedMessage]]

\* What c_last records: the request (operation, request.user, payload) and the
\* response (status, the rows listed), with the message table before it.
ChatResponse(op, user, data, status, rows, before) ==
    [op |-> op, user |-> user, data |-> data, status |-> status, rows |-> rows,
     before |-> before]

\* pk is the key in the URL of a PUT, PATCH or DELETE, partial tells a PATCH
\* from a PUT, and fields are the fields the payload of a PUT or PATCH holds.
NoData == [conversation |-> NoId, sender_id |-> NoSender,
           message_body |-> [len |-> 0, blank |-> TRUE],
           participant_ids |-> <<>>, param |-> NoParam,
           pk |-> NoId, partial |-> FALSE, fields |-> {}]

NoChatResponse == ChatResponse("none", Anonymous, NoData, 0, <<>>, <<>>)

Bodies == {[len |-> 5, blank |-> FALSE], [len |-> 3, blank |-> TRUE]}

Payloads == {<<>>, <<"u1">>, <<"u2">>, <<"u2", "u3">>, <<"u1", "u1">>, <<"u3", UnknownUser>>,
             <<UpperU1, "u2">>}

\* POST /conversations/
ChatConversationCreate ==
    /\ c_last = NoChatResponse
    /\ Len(c_db.convs) < MaxConvs
    /\ \E user \in ChatUsers \cup {Anonymous}, ids \in Payloads :
          LET r == Conversation_create(c_db, ids, user)
          IN  /\ c_db' = r.db
              /\ c_last' = ChatResponse("conversation", user,
                                        [NoData EXCEPT !.participant_ids = ids],
                                        r.status, <<>>, c_db.messages)
    /\ UNCHANGED <<rlVars, taVars, mVars, tVars, dVars>>

\* POST /messages/
ChatMessageCreate ==
    /\ c_last = NoChatResponse
    /\ Len(c_db.messages) < MaxChatMessages
    /\ \E user \in ChatUsers \cup {Anonymous},
          conversation \in 1..(Len(c_db.convs) + 1),
          sender_id \in {NoSender, "u2", UnknownUser},
          body \in Bodies, d \in {0, 1} :
          LET data == [NoData EXCEPT !.conversation = conversation,
                                     !.sender_id = sender_id, !.message_body = body]
              r == Message_create(c_db, data, user, d)
          IN  /\ c_db' = r.db
              /\ c_last' = ChatResponse("post", user, data, r.status, <<>>, c_db.messages)
    /\ UNCHANGED <<rlVars, taVars, mVars, tVars, dVars>>

\* The payloads of PUT and PATCH /conversations/<pk>/: partial, the fields
\* given, participant_ids.
ConversationUpdates ==
    {<<TRUE, {}, <<>>>>, <<FALSE, {}, <<>>>>,
     <<TRUE, {"participant_ids"}, <<"u2", "u3">>>>,
     <<FALSE, {"participant_ids"}, <<"u1", "u3">>>>,
     <<TRUE, {"participant_ids"}, <<"u2">>>>}

\* PUT and PATCH /conversations/<pk>/; pk names a conversation or none.
ChatConversationUpdate ==
    /\ c_last = NoChatResponse
    /\ \E user \in ChatUsers \cup {Anonymous}, pk \in 1..(Len(c_db.convs) + 1),
          u \in ConversationUpdates :
          LET data == [NoData EXCEPT !.pk = pk, !.partial = u[1], !.fields = u[2],
                                     !.participant_ids = u[3]]
              r == Conversation_update(c_db, data, user)
          IN  /\ c_db' = r.db
              /\ c_last' = ChatResponse("conversation_update", user, data, r.status,
                                        <<>>, c_db.messages)
    /\ UNCHANGED <<rlVars, taVars, mVars, tVars, dVars>>

\* DELETE /conversations/<pk>/
ChatConversationDestroy ==
    /\ c_last = NoChatResponse
    /\ \E user \in ChatUsers \cup {Anonymous}, pk \in 1..(Len(c_db.convs) + 1) :
          LET r == Conversation_destroy(c_db, pk, user)
          IN  /\ c_db' = r.db
              /\ c_last' = ChatResponse("conversation_destroy", user,
                                        [NoData EXCEPT !.pk = pk], r.status,
                                        <<>>, c_db.messages)
    /\ UNCHANGED <<rlVars, taVars, mVars, tVars, dVars>>

\* The payloads of PUT and PATCH /messages/<pk>/ in a state with n
\* conversation keys: partial, sender_id, the fields given, conversation,
\* message_body.
MessageUpdates(n) ==
    LET body == [len |-> 5, blank |-> FALSE]
        blank == [len |-> 3, blank |-> TRUE]
    IN  {<<TRUE, "u2", {}, NoId, NoData.message_body>>,
         <<TRUE, NoSender, {"message_body"}, NoId, blank>>,
         <<FALSE, NoSender, {}, NoId, NoData.message_body>>}
        \cup {<<TRUE, NoSender, {"conversation"}, k, NoData.message_body>> :
                 k \in 1..(n + 1)}
        \cup {<<FALSE, "u2", {"conversation", "message_body"}, k, body>> :
                 k \in 1..n}

\* PUT and PATCH /messages/<pk>/; pk names a message or none.
ChatMessageUpdate ==
    /\ c_last = NoChatResponse
    /\ \E user \in ChatUsers \cup {Anonymous}, pk \in 1..(Len(c_db.messages) + 1),
          u \in MessageUpdates(Len(c_db.convs)) :
          LET data == [NoData EXCEPT !.pk = pk, !.partial = u[1], !.sender_id = u[2],
                                     !.fields = u[3], !.conversation = u[4],
                                     !.message_body = u[5]]
              r == Message_update(c_db, data, user)
          IN  /\ c_db' = r.db
              /\ c_last' = ChatResponse("message_update", user, data, r.status,
                                        <<>>, c_db.messages)
    /\ UNCHANGED <<rlVars, taVars, mVars, tVars, dVars>>

\* DELETE /messages/<pk>/
ChatMessageDestroy ==
    /\ c_last = NoChatResponse
    /\ \E user \in ChatUsers \cup {Anonymous}, pk \in 1..(Len(c_db.messages) + 1) :
          LET r == Message_destroy(c_db, pk, user)
          IN  /\ c_db' = r.db
              /\ c_last' = ChatResponse("message_destroy", user,
                                        [NoData EXCEPT !.pk = pk], r.status,
                                        <<>>, c_db.messages)
    /\ UNCHANGED <<rlVars, taVars, mVars, tVars, dVars>>

\* GET /messages/[?conversation=...]: IsAuthenticated, then the rows of
\* get_queryset in the order of order_by("sent_at").
ChatMessageList ==
    /\ c_last = NoChatResponse
    /\ \E user \in ChatUsers \cup {Anonymous},
          param \in {NoParam, BadParam} \cup {UuidParam(k) : k \in 1..(Len(c_db.convs) + 1)} :
          LET q == IF is_authenticated(user) THEN Message_get_queryset(c_db, user, param)
                   ELSE [error |-> FALSE, rows |-> {}]
              status == IF ~is_authenticated(user) THEN 401
                        ELSE IF q.error THEN 400 ELSE 200
          IN  \E order \in SortedOrders(c_db.messages, q.rows) :
                 c_last' = ChatResponse("list", user, [NoData EXCEPT !.param = param],
                                        status, order, c_db.messages)
    /\ UNCHANGED <<c_db, rlVars, taVars, mVars, tVars, dVars>>

\* The view returns its Response: the request is over and the next one is
\* handled. Requests are handled one after another.
ChatRespond ==
    /\ c_last # NoChatResponse
    /\ c_last' = NoChatResponse
    /\ UNCHANGED <<c_db, rlVars, taVars, mVars, tVars, dVars>>

(***************************************************************************)
(* python-decorators-0x01: with_db_connection and retry_on_failure         *)
(***************************************************************************)
\* The largest retries argument tried.
MaxRetries == 3

\* What a cursor.fetchall() of the scripts returns: a list of tuples.
Rows == {<<>>, <<"row1">>}

\* The exceptions a wrapped function raises: sqlite3 errors and ValueError
\* derive from Exception, KeyboardInterrupt from BaseException only.
Exceptions == {"OperationalError", "ValueError", "KeyboardInterrupt"}
IsException(exc) == exc # "KeyboardInterrupt"

Return(value) == [kind |-> "return", value |-> value, exc |-> Null, at |-> 0]
Raise(exc, at) == [kind |-> "raise", value |-> <<>>, exc |-> exc, at |-> at]
Pending == [kind |-> "none", value |-> <<>>, exc |-> Null, at |-> 0]

\* How one run of the wrapped function can end.
FuncOutcomes == {Return(rows) : rows \in Rows} \cup {Raise(exc, 0) : exc \in Exceptions}

\* conn = None, and sqlite3.connect('users.db'): a new connection object.
NoConn == [id |-> 0, open |-> FALSE, closes |-> 0]
connect(previous) == [id |-> IF previous.id = 1 THEN 2 ELSE 1, open |-> TRUE, closes |-> 0]

\* The finally clause of with_db_connection: conn.close() when conn is not None.
close_in_finally_onReturn(c, outcome) ==
    IF c.id = 0 \/ outcome.kind = "raise" THEN c
    ELSE [c EXCEPT !.open = FALSE, !.closes = @ + 1]

close_in_finally(c, outcome) ==
    IF c.id = 0 THEN c ELSE [c EXCEPT !.open = FALSE, !.closes = @ + 1]

\* One event of d_events: the wrapped function ran on connection c and ended
\* with out, or a method of the connection was called.
Ran(c, out) == [ev |-> "func", conn |-> c.id, open |-> c.open, out |-> out]
Called(method, c, out) == [ev |-> method, conn |-> c.id, open |-> c.open, out |-> out]
Runs(events) == SelectSeq(events, LAMBDA e : e.ev = "func")
Calls(events, method) == Len(SelectSeq(events, LAMBDA e : e.ev = method))

\* The body of retry_on_failure's while loop after func has ended with out:
\* return its result, or count the attempt and re-raise or sleep and go on.
\* An exception that is not an Exception is not caught.
retry_on_failure(n, count, out) ==
    IF out.kind = "return" THEN [attempt |-> count, next |-> "return"]
    ELSE IF ~IsException(out.exc) THEN [attempt |-> count, next |-> "raise"]
    ELSE IF count + 1 >= n THEN [attempt |-> count + 1, next |-> "raise"]
    ELSE [attempt |-> count + 1, next |-> "sleep"]

\* fetch_users_with_retry(): with_db_connection's wrapper connects; when the
\* connection cannot be opened the error goes to the caller and there is
\* nothing to close. Then retry_on_failure's wrapper starts with attempt = 0.
RetryCall ==
    /\ d_pc = "idle"
    /\ d_events' = <<>>
    /\ attempt' = 0
    /\ \/ /\ conn' = connect(conn)
          /\ d_pc' = "func"
          /\ d_outcome' = Pending
       \/ /\ conn' = NoConn
          /\ d_pc' = "idle"
          /\ d_outcome' = Raise("OperationalError", 0)
    /\ UNCHANGED <<d_args, retries, users_db, query_cache, d_first>>
    /\ UNCHANGED <<rlVars, taVars, mVars, cVars, tVars>>

\* One attempt: func(conn) runs and the loop body decides what follows.
RetryAttempt ==
    /\ d_pc = "func"
    /\ \E out \in FuncOutcomes :
          LET r == retry_on_failure(retries, attempt, out)
              at == Len(Runs(d_events)) + 1
          IN  /\ d_events' = Append(d_events, Ran(conn, out))
              /\ attempt' = r.attempt
              /\ d_pc' = IF r.next = "sleep" THEN "sleep" ELSE "finally"
              /\ d_outcome' = IF r.next = "sleep" THEN Pending
                              ELSE IF r.next = "return" THEN out
                              ELSE Raise(out.exc, at)
    /\ UNCHANGED <<d_args, conn, retries, users_db, query_cache, d_first>>
    /\ UNCHANGED <<rlVars, taVars, mVars, cVars, tVars>>

\* time.sleep(delay), then the next turn of the loop.
RetrySleep ==
    /\ d_pc = "sleep"
    /\ d_pc' = "func"
    /\ UNCHANGED <<d_args, conn, attempt, retries, users_db, query_cache, d_first,
                   d_events, d_outcome>>
    /\ UNCHANGED <<rlVars, taVars, mVars, cVars, tVars>>

\* The finally clause of with_db_connection's wrapper; the result or the
\* exception then goes to the caller.
DbClose ==
    /\ d_pc = "finally"
    /\ conn' = close_in_finally(conn, d_outcome)
    /\ d_events' = Append(d_events, Called("close", conn, Return(<<>>)))
    /\ d_pc' = "idle"
    /\ UNCHANGED <<d_args, attempt, retries, users_db, query_cache, d_first, d_outcome>>
    /\ UNCHANGED <<rlVars, taVars, mVars, cVars, tVars>>

(***************************************************************************)
(* python-decorators-0x01: transactional                                   *)
(***************************************************************************)
\* The values the email column of user 1 takes.
Emails == {"old@mail", "new@mail"}

\* users.db as a connection sees it: what is committed, and what the open
\* transaction of the connection has written.
UsersDb(committed, working) == [committed |-> committed, working |-> working]

\* How a call of a connection method can end: sqlite3 raises
\* OperationalError (database is locked, disk I/O error).
MethodOutcomes == {Return(<<>>), Raise("OperationalError", 0)}

\* What transactional's wrapper does next, after step ("func", "commit") has
\* ended with out: commit after a normal return, rollback in the except
\* clause, which an exception that is not an Exception passes by.
transactional_noRollback(step, out) ==
    IF out.kind = "return" THEN (IF step = "func" THEN "commit" ELSE "finally")
    ELSE "finally"

transactional(step, out) ==
    IF out.kind = "return" THEN (IF step = "func" THEN "commit" ELSE "finally")
    ELSE IF IsException(out.exc) THEN "rollback"
    ELSE "finally"

\* update_user_email(user_id=1, new_email=...): with_db_connection's wrapper
\* connects (or fails to) and passes conn to transactional's wrapper, which
\* finds it in args[0].
TxCall ==
    /\ d_pc = "idle"
    /\ d_events' = <<>>
    /\ \E new_email \in Emails : d_args' = [user_id |-> 1, new_email |-> new_email]
    /\ \/ /\ conn' = connect(conn)
          /\ d_pc' = "func"
          /\ d_outcome' = Pending
       \/ /\ conn' = NoConn
          /\ d_pc' = "idle"
          /\ d_outcome' = Raise("OperationalError", 0)
    /\ UNCHANGED <<attempt, retries, users_db, query_cache, d_first>>
    /\ UNCHANGED <<rlVars, taVars, mVars, cVars, tVars>>

\* func(*args, **kwargs): the UPDATE is executed inside the connection's
\* transaction, or the function raises before or after it.
TxFunc ==
    /\ d_pc = "func"
    /\ \E out \in {Return(<<>>)} \cup {Raise(exc, 0) : exc \in Exceptions},
          updated \in BOOLEAN :
          /\ out.kind = "return" => updated
          /\ users_db' = IF updated THEN [users_db EXCEPT !.working = d_args.new_email]
                         ELSE users_db
          /\ d_events' = Append(d_events, Ran(conn, out))
          /\ d_pc' = transactional("func", out)
          /\ d_outcome' = IF out.kind = "return" THEN Pending
                          ELSE Raise(out.exc, Len(d_events) + 1)
    /\ UNCHANGED <<d_args, conn, attempt, retries, query_cache, d_first>>
    /\ UNCHANGED <<rlVars, taVars, mVars, cVars, tVars>>

\* conn.commit(), then return result; a commit that raises is inside the try.
TxCommit ==
    /\ d_pc = "commit"
    /\ \E out \in MethodOutcomes :
          /\ users_db' = IF out.kind = "return"
                         THEN [users_db EXCEPT !.committed = users_db.working]
                         ELSE users_db
          /\ d_events' = Append(d_events, Called("commit", conn, out))
          /\ d_pc' = transactional("commit", out)
          /\ d_outcome' = IF out.kind = "return" THEN out
                          ELSE Raise(out.exc, Len(d_events) + 1)
    /\ UNCHANGED <<d_args, conn, attempt, retries, query_cache, d_first>>
    /\ UNCHANGED <<rlVars, taVars, mVars, cVars, tVars>>

\* except Exception: conn.rollback(), whose own exception is passed over;
\* then raise.
TxRollback ==
    /\ d_pc = "rollback"
    /\ \E out \in MethodOutcomes :
          /\ users_db' = IF out.kind = "return"
                         THEN [users_db EXCEPT !.working = users_db.committed]
                         ELSE users_db
          /\ d_events' = Append(d_events, Called("rollback", conn, out))
    /\ d_pc' = "finally"
    /\ UNCHANGED <<d_args, conn, attempt, retries, query_cache, d_first, d_outcome>>
    /\ UNCHANGED <<rlVars, taVars, mVars, cVars, tVars>>

\* The finally clause of with_db_connection's wrapper: closing the
\* connection gives up what its transaction has not committed.
TxClose ==
    /\ d_pc = "finally"
    /\ conn' = close_in_finally(conn, d_outcome)
    /\ users_db' = [users_db EXCEPT !.working = users_db.committed]
    /\ d_events' = Append(d_events, Called("close", conn, Return(<<>>)))
    /\ d_pc' = "idle"
    /\ UNCHANGED <<d_args, attempt, retries, query_cache, d_first, d_outcome>>
    /\ UNCHANGED <<rlVars, taVars, mVars, cVars, tVars>>

(***************************************************************************)
(* python-decorators-0x01: cache_query                                     *)
(***************************************************************************)
\* The SQL strings of the calls: one without a placeholder, one with one.
SelectAll == "SELECT * FROM users"
SelectById == "SELECT * FROM users WHERE id = ?"
Queries == {SelectAll, SelectById}

\* params: None, or the tuple (1,).
NoParams == <<>>
ParamValues == {NoParams, <<1>>}

\* The ids the users table may hold.
UserIds == {1, 2}

\* A row as sqlite3 returns it without a row_factory, a tuple, and tuple(row).
Row(id) == [type |-> "tuple", values |-> <<id>>]
tuple(row) == [type |-> "tuple", values |-> row.values]

\* A call fetch_users_with_cache(...): the query, the params, and whether
\* params is passed by keyword (params=...) or by position.
CacheCalls ==
    {[query |-> q, params |-> ps, by |-> by] :
        q \in Queries, ps \in ParamValues, by \in {"keyword", "position"}}

\* cursor.execute and fetchall of fetch_users_with_cache on the table db (the
\* set of ids present): the number of bindings must match the placeholders.
Fetch(db, call) ==
    LET all == IF db = {1, 2} THEN <<Row(1), Row(2)>>
               ELSE IF db = {} THEN <<>> ELSE <<Row(CHOOSE id \in db : TRUE)>>
    IN  IF call.query = SelectAll
        THEN (IF call.params = NoParams THEN Return(all)
              ELSE Raise("ProgrammingError", 1))
        ELSE (IF call.params = NoParams THEN Raise("ProgrammingError", 1)
              ELSE Return(SelectSeq(all, LAMBDA r : r.values[1] = call.params[1])))

\* key = (sql, params): sql from kwargs["query"] or the positional argument
\* after conn, params from kwargs.get("params") only.
cache_key(call) ==
    [sql |-> call.query,
     params |-> IF call.by = "keyword" THEN call.params ELSE NoParams]

\* cache_query's wrapper on the cache: a hit returns the cached rows as
\* tuples; a miss runs the function, stores its rows as tuples and returns
\* its result; an exception of the function passes through.
cache_query(cache, call, db) ==
    LET key == cache_key(call)
    IN  IF key \in DOMAIN cache
        THEN [cache |-> cache, invoked |-> FALSE,
              out |-> Return([i \in 1..Len(cache[key]) |-> tuple(cache[key][i])])]
        ELSE LET out == Fetch(db, call)
                 normalized == [i \in 1..Len(out.value) |-> tuple(out.value[i])]
             IN  [cache |-> IF out.kind = "raise" THEN cache
                            ELSE [k \in DOMAIN cache \cup {key} |->
                                     IF k = key THEN normalized ELSE cache[k]],
                  invoked |-> TRUE, out |-> out]

\* What d_first keeps for the (query, params) of a call that has returned:
\* the rows of its first return, and whether it has returned once or more.
FirstReturn(first, call, out) ==
    LET args == [query |-> call.query, params |-> call.params]
    IN  IF out.kind # "return" THEN first
        ELSE [a \in DOMAIN first \cup {args} |->
                 IF a # args THEN first[a]
                 ELSE IF a \in DOMAIN first THEN [first[a] EXCEPT !.returned = 2]
                 ELSE [rows |-> out.value, returned |-> 1]]

\* One call of fetch_users_with_cache: with_db_connection's wrapper connects,
\* cache_query's wrapper answers from the cache or runs the function, and the
\* connection is closed. When users.db cannot be opened, the error of
\* sqlite3.connect goes to the caller before the cache is looked at, and
\* there is nothing to close.
CacheCall ==
    /\ \E call \in CacheCalls :
          LET r == cache_query(query_cache, call, users_db)
              c == connect(conn)
          IN  /\ d_args' = call
              /\ \/ /\ query_cache' = r.cache
                    /\ d_events' = IF r.invoked THEN <<Ran(c, r.out)>> ELSE <<>>
                    /\ d_outcome' = r.out
                    /\ d_first' = FirstReturn(d_first, call, r.out)
                    /\ conn' = close_in_finally(c, r.out)
                 \/ /\ conn' = NoConn
                    /\ d_events' = <<>>
                    /\ d_outcome' = Raise("OperationalError", 0)
                    /\ UNCHANGED <<query_cache, d_first>>
    /\ UNCHANGED <<d_pc, attempt, retries, users_db>>
    /\ UNCHANGED <<rlVars, taVars, mVars, cVars, tVars>>

\* Another program inserts or deletes a row of users.db between two calls.
DbWrite ==
    /\ \E id \in UserIds :
          users_db' = IF id \in users_db THEN users_db \ {id} ELSE users_db \cup {id}
    /\ UNCHANGED <<d_pc, d_args, conn, attempt, retries, query_cache, d_first,
                   d_events, d_outcome>>
    /\ UNCHANGED <<rlVars, taVars, mVars, cVars, tVars>>

(***************************************************************************)
(* Specifications                                                          *)
(***************************************************************************)
\* The rate limiter after __init__; the other subsystems at rest.
InitRate ==
    /\ rl_clock = 0
    /\ rl_requests = <<>>
    /\ rl_forwarded = <<>>
    /\ rl_last = NoResponse
    /\ ta_config = DefaultHours
    /\ ta_now = <<0, 0>>
    /\ ta_last = TaNoResponse
    /\ m_db = EmptyDb
    /\ m_atomic = FALSE
    /\ m_open = FALSE
    /\ m_last = NoLast
    /\ m_written = <<>>
    /\ c_db = EmptyChatDb
    /\ c_last = NoChatResponse
    /\ rl_threads = <<>>
    /\ m_threads = <<>>
    /\ d_pc = "idle"
    /\ d_args = <<>>
    /\ conn = Null
    /\ attempt = 0
    /\ retries = 0
    /\ users_db = <<>>
    /\ query_cache = <<>>
    /\ d_first = <<>>
    /\ d_events = <<>>
    /\ d_outcome = Null

NextRate == RlHandle \/ RlTick
SpecRate == InitRate /\ [][NextRate]_vars

\* The rate limiter after __init__, its threads outside __call__.
InitRateThreads ==
    /\ rl_clock = 0
    /\ rl_requests = <<>>
    /\ rl_forwarded = <<>>
    /\ rl_last = NoResponse
    /\ ta_config = DefaultHours
    /\ ta_now = <<0, 0>>
    /\ ta_last = TaNoResponse
    /\ m_db = EmptyDb
    /\ m_atomic = FALSE
    /\ m_open = FALSE
    /\ m_last = NoLast
    /\ m_written = <<>>
    /\ c_db = EmptyChatDb
    /\ c_last = NoChatResponse
    /\ rl_threads = [t \in RlThreads |-> IdleThread]
    /\ m_threads = <<>>
    /\ d_pc = "idle"
    /\ d_args = <<>>
    /\ conn = Null
    /\ attempt = 0
    /\ retries = 0
    /\ users_db = <<>>
    /\ query_cache = <<>>
    /\ d_first = <<>>
    /\ d_events = <<>>
    /\ d_outcome = Null

NextRateThreads == RlThreadStart \/ RlThreadLocked \/ RlThreadForward \/ RlTick
SpecRateThreads == InitRateThreads /\ [][NextRateThreads]_vars

\* The time restriction after __init__ under each configuration tried.
InitTime ==
    /\ rl_clock = 0
    /\ rl_requests = <<>>
    /\ rl_forwarded = <<>>
    /\ rl_last = NoResponse
    /\ ta_config \in HourConfigs
    /\ ta_now = <<0, 0>>
    /\ ta_last = TaNoResponse
    /\ m_db = EmptyDb
    /\ m_atomic = FALSE
    /\ m_open = FALSE
    /\ m_last = NoLast
    /\ m_written = <<>>
    /\ c_db = EmptyChatDb
    /\ c_last = NoChatResponse
    /\ rl_threads = <<>>
    /\ m_threads = <<>>
    /\ d_pc = "idle"
    /\ d_args = <<>>
    /\ conn = Null
    /\ attempt = 0
    /\ retries = 0
    /\ users_db = <<>>
    /\ query_cache = <<>>
    /\ d_first = <<>>
    /\ d_events = <<>>
    /\ d_outcome = Null

NextTime == TaHandle \/ TaTick
SpecTime == InitTime /\ [][NextTime]_vars

\* The messaging app with its users and no message, with and without
\* ATOMIC_REQUESTS.
InitMsg ==
    /\ rl_clock = 0
    /\ rl_requests = <<>>
    /\ rl_forwarded = <<>>
    /\ rl_last = NoResponse
    /\ ta_config = DefaultHours
    /\ ta_now = <<0, 0>>
    /\ ta_last = TaNoResponse
    /\ m_db = EmptyDb
    /\ m_atomic \in BOOLEAN
    /\ m_open = FALSE
    /\ m_last = NoLast
    /\ m_written = <<>>
    /\ c_db = EmptyChatDb
    /\ c_last = NoChatResponse
    /\ rl_threads = <<>>
    /\ m_threads = <<>>
    /\ d_pc = "idle"
    /\ d_args = <<>>
    /\ conn = Null
    /\ attempt = 0
    /\ retries = 0
    /\ users_db = <<>>
    /\ query_cache = <<>>
    /\ d_first = <<>>
    /\ d_events = <<>>
    /\ d_outcome = Null

\* The chats app with its users and no conversation.
InitChat ==
    /\ rl_clock = 0
    /\ rl_requests = <<>>
    /\ rl_forwarded = <<>>
    /\ rl_last = NoResponse
    /\ ta_config = DefaultHours
    /\ ta_now = <<0, 0>>
    /\ ta_last = TaNoResponse
    /\ m_db = EmptyDb
    /\ m_atomic = FALSE
    /\ m_open = FALSE
    /\ m_last = NoLast
    /\ m_written = <<>>
    /\ c_db = EmptyChatDb
    /\ c_last = NoChatResponse
    /\ rl_threads = <<>>
    /\ m_threads = <<>>
    /\ d_pc = "idle"
    /\ d_args = <<>>
    /\ conn = Null
    /\ attempt = 0
    /\ retries = 0
    /\ users_db = <<>>
    /\ query_cache = <<>>
    /\ d_first = <<>>
    /\ d_events = <<>>
    /\ d_outcome = Null

NextChat ==
    \/ ChatConversationCreate \/ ChatConversationUpdate \/ ChatConversationDestroy
    \/ ChatMessageCreate \/ ChatMessageUpdate \/ ChatMessageDestroy
    \/ ChatMessageList \/ ChatRespond
SpecChat == InitChat /\ [][NextChat]_vars

NextMsg == MsgCreate \/ MsgEdit \/ MsgDeleteUser \/ MsgCommit
SpecMsg == InitMsg /\ [][NextMsg]_vars

\* The messaging app (autocommit) after alice has sent bob one message; no
\* request is editing it.
InitMsgThreads ==
    /\ rl_clock = 0
    /\ rl_requests = <<>>
    /\ rl_forwarded = <<>>
    /\ rl_last = NoResponse
    /\ ta_config = DefaultHours
    /\ ta_now = <<0, 0>>
    /\ ta_last = TaNoResponse
    /\ m_db = Message_save(EmptyDb, NoId, NewInstance("alice", "bob", "original", NoId),
                        Null, TRUE).db
    /\ m_atomic = FALSE
    /\ m_open = FALSE
    /\ m_last = NoLast
    /\ m_written = [pk \in {EditedPk} |-> <<"original">>]
    /\ c_db = EmptyChatDb
    /\ c_last = NoChatResponse
    /\ rl_threads = <<>>
    /\ m_threads = [t \in MsgThreads |-> IdleEdit(0)]
    /\ d_pc = "idle"
    /\ d_args = <<>>
    /\ conn = Null
    /\ attempt = 0
    /\ retries = 0
    /\ users_db = <<>>
    /\ query_cache = <<>>
    /\ d_first = <<>>
    /\ d_events = <<>>
    /\ d_outcome = Null

NextMsgThreads == MsgThreadLoad \/ MsgThreadRead \/ MsgThreadLog \/ MsgThreadUpdate
SpecMsgThreads == InitMsgThreads /\ [][NextMsgThreads]_vars

\* fetch_users_with_retry decorated with each retries argument tried; no call made yet.
InitRetry ==
    /\ rl_clock = 0
    /\ rl_requests = <<>>
    /\ rl_forwarded = <<>>
    /\ rl_last = NoResponse
    /\ ta_config = DefaultHours
    /\ ta_now = <<0, 0>>
    /\ ta_last = TaNoResponse
    /\ m_db = EmptyDb
    /\ m_atomic = FALSE
    /\ m_open = FALSE
    /\ m_last = NoLast
    /\ m_written = <<>>
    /\ c_db = EmptyChatDb
    /\ c_last = NoChatResponse
    /\ rl_threads = <<>>
    /\ m_threads = <<>>
    /\ d_pc = "idle"
    /\ d_args = <<>>
    /\ conn = NoConn
    /\ attempt = 0
    /\ retries \in 0..MaxRetries
    /\ users_db = <<>>
    /\ query_cache = <<>>
    /\ d_first = <<>>
    /\ d_events = <<>>
    /\ d_outcome = Pending

NextRetry == RetryCall \/ RetryAttempt \/ RetrySleep \/ DbClose
SpecRetry == InitRetry /\ [][NextRetry]_vars

\* update_user_email before its first call, for each email user 1 may have.
InitTx ==
    /\ rl_clock = 0
    /\ rl_requests = <<>>
    /\ rl_forwarded = <<>>
    /\ rl_last = NoResponse
    /\ ta_config = DefaultHours
    /\ ta_now = <<0, 0>>
    /\ ta_last = TaNoResponse
    /\ m_db = EmptyDb
    /\ m_atomic = FALSE
    /\ m_open = FALSE
    /\ m_last = NoLast
    /\ m_written = <<>>
    /\ c_db = EmptyChatDb
    /\ c_last = NoChatResponse
    /\ rl_threads = <<>>
    /\ m_threads = <<>>
    /\ d_pc = "idle"
    /\ d_args = [user_id |-> 1, new_email |-> "new@mail"]
    /\ conn = NoConn
    /\ attempt = 0
    /\ retries = 0
    /\ users_db \in {UsersDb(e, e) : e \in Emails}
    /\ query_cache = <<>>
    /\ d_first = <<>>
    /\ d_events = <<>>
    /\ d_outcome = Pending

NextTx == TxCall \/ TxFunc \/ TxCommit \/ TxRollback \/ TxClose
SpecTx == InitTx /\ [][NextTx]_vars

\* 4-cache_query.py after import: query_cache = {}, users.db with both users.
InitCache ==
    /\ rl_clock = 0
    /\ rl_requests = <<>>
    /\ rl_forwarded = <<>>
    /\ rl_last = NoResponse
    /\ ta_config = DefaultHours
    /\ ta_now = <<0, 0>>
    /\ ta_last = TaNoResponse
    /\ m_db = EmptyDb
    /\ m_atomic = FALSE
    /\ m_open = FALSE
    /\ m_last = NoLast
    /\ m_written = <<>>
    /\ c_db = EmptyChatDb
    /\ c_last = NoChatResponse
    /\ rl_threads = <<>>
    /\ m_threads = <<>>
    /\ d_pc = "idle"
    /\ d_args = [query |-> SelectAll, params |-> NoParams, by |-> "keyword"]
    /\ conn = NoConn
    /\ attempt = 0
    /\ retries = 0
    /\ users_db = UserIds
    /\ query_cache = <<>>
    /\ d_first = <<>>
    /\ d_events = <<>>
    /\ d_outcome = Pending

NextCache == CacheCall \/ DbWrite
SpecCache == InitCache /\ [][NextCache]_vars

(***************************************************************************)
(* Claims on the rate limiter (SpecRate)                                   *)
(***************************************************************************)
\* Number of entries of f with a <= entry <= b.
CountIn(f, a, b) == Cardinality({i \in 1..Len(f) : a <= f[i] /\ f[i] <= b})

\* C1: for every client IP, every interval of length window_seconds holds the
\* timestamps of at most max_messages forwarded POSTs to a target path, and a
\* POST answered 429 is not forwarded.
C1_WindowBound ==
    /\ \A ip \in DOMAIN rl_forwarded : \A a \in 0..MaxTime :
           CountIn(rl_forwarded[ip], a, a + window_seconds) <= max_messages
    /\ (rl_last.status # 0 /\ rl_last.status = 429) => ~rl_last.forwarded

\* A POST has just been rejected while max_messages forwarded POSTs of its IP
\* lie in the window that ends at it.
C1_Witness ==
    /\ rl_last.status # 0
    /\ rl_last.status = 429
    /\ CountIn(ForwardedOf(rl_last.ip), rl_last.ts - window_seconds, rl_last.ts)
          = max_messages

\* The request is not a POST, or its path contains no target path.
NotPostToTarget(r) ==
    r.method \notin {"POST", "post"} \/ ~Contains(r.path, <<"/api", "/messages">>)

\* C8: a request that is not a POST to a target path is forwarded and leaves
\* the per-IP timestamp store unchanged.
C8_OnlyPostsCounted ==
    [][(rl_last'.status # 0 /\ NotPostToTarget(rl_last'))
          => (rl_requests' = rl_requests /\ rl_last'.forwarded /\ rl_last'.status = 200)]_vars

\* A GET to a target path has been forwarded although the deque of its
\* address is full.
C8_Witness ==
    /\ rl_last.status # 0
    /\ rl_last.method = "GET"
    /\ Contains(rl_last.path, <<"/api", "/messages">>)
    /\ rl_last.forwarded
    /\ Len(DequeOf("10.0.0.1")) = max_messages

\* dq is what is left of old after some of its oldest entries were dropped.
IsSuffix(dq, old) ==
    Len(dq) <= Len(old) /\ dq = SubSeq(old, Len(old) - Len(dq) + 1, Len(old))

\* C16: a request is answered 429 only when at least max_messages forwarded
\* POSTs of its IP have timestamps within the window_seconds before it, the
\* latest of them no more than window_seconds ago; the rejected request adds
\* no timestamp to the deque of its IP and is not forwarded.
C16_RejectOnlyWhenFull ==
    [][(rl_last'.status # 0 /\ rl_last'.status = 429) =>
          LET ip == rl_last'.ip
              ts == rl_last'.ts
              admitted == ForwardedOf(ip)
          IN  /\ CountIn(admitted, ts - window_seconds, ts) >= max_messages
              /\ admitted # <<>>
              /\ ts - admitted[Len(admitted)] <= window_seconds
              /\ rl_forwarded' = rl_forwarded
              /\ ip \in DOMAIN rl_requests
              /\ IsSuffix(rl_requests'[ip], rl_requests[ip])]_vars

\* A POST has been forwarded more than window_seconds after the
\* max_messages-th forwarded POST of its IP.
C16_Witness ==
    /\ rl_last.status = 200
    /\ rl_last.ip # Null
    /\ Len(ForwardedOf(rl_last.ip)) = max_messages + 1
    /\ ForwardedOf(rl_last.ip)[max_messages] + window_seconds < rl_last.ts
    /\ ForwardedOf(rl_last.ip)[max_messages + 1] = rl_last.ts

\* The timestamps of the admitted requests of ip: those that reached
\* get_response and those of the threads on their way to it.
RECURSIVE AdmittedOf(_, _)
AdmittedOf(ip, ts) ==
    IF ts = {} THEN ForwardedOf(ip)
    ELSE LET t == CHOOSE x \in ts : TRUE
         IN  IF rl_threads[t].ip = ip
             THEN Append(AdmittedOf(ip, ts \ {t}), rl_threads[t].now_ts)
             ELSE AdmittedOf(ip, ts \ {t})

\* C17 (as claimed): with threads, as with requests handled one after
\* another, no window of window_seconds holds more than max_messages
\* admitted timestamps of one IP, and a request is answered 429 only when at
\* least max_messages admitted timestamps of its IP lie within the
\* window_seconds before its own.
C17_AsClaimed ==
    /\ \A ip \in DOMAIN rl_requests : \A a \in 0..MaxTime :
           CountIn(AdmittedOf(ip, AdmittedThreads), a, a + window_seconds) <= max_messages
    /\ rl_last.status = 429 =>
           CountIn(AdmittedOf(rl_last.ip, AdmittedThreads),
                   rl_last.ts - window_seconds, rl_last.ts) >= max_messages

(***************************************************************************)
(* Claims on the messaging signals (SpecMsg)                               *)
(***************************************************************************)
\* Positions of the notifications that reference message pk.
NotificationsOf(pk) ==
    {i \in 1..Len(m_db.notifications) : m_db.notifications[i].message = pk}

\* The transaction that created message pk is still open.
CreationOpen(pk) == m_open /\ m_last.op = "create" /\ m_last.pk = pk

\* C2: once the creation of a message has committed, exactly one notification
\* references it when sender and receiver differ (it belongs to the receiver
\* and is unread), and none when they are the same user.
C2_NotificationOnCreate ==
    \A pk \in DOMAIN m_db.messages :
        LET m == m_db.messages[pk]
        IN  ~CreationOpen(pk) =>
               IF m.sender # m.receiver
               THEN /\ Cardinality(NotificationsOf(pk)) = 1
                    /\ \A i \in NotificationsOf(pk) :
                          /\ m_db.notifications[i].user = m.receiver
                          /\ m_db.notifications[i].is_read = FALSE
               ELSE NotificationsOf(pk) = {}

\* Under ATOMIC_REQUESTS, after the commit: a message to another user with its
\* notification beside a message to oneself without any.
C2_Witness ==
    /\ m_atomic /\ ~m_open /\ m_last.op = "create"
    /\ \E p, q \in DOMAIN m_db.messages :
          /\ m_db.messages[p].sender # m_db.messages[p].receiver
          /\ Cardinality(NotificationsOf(p)) = 1
          /\ m_db.messages[q].sender = m_db.messages[q].receiver
          /\ NotificationsOf(q) = {}

\* C3: in every state each message has at most one notification, whatever
\* saves (edits, the second save of a root message) it went through.
C3_NoDuplicateNotification ==
    \A i, j \in 1..Len(m_db.notifications) :
        m_db.notifications[i].message = m_db.notifications[j].message => i = j

\* A root message (saved twice at creation) that was edited afterwards still
\* has its single notification.
C3_Witness ==
    /\ m_last.op = "edit"
    /\ m_last.pk \in DOMAIN m_db.messages
    /\ m_db.messages[m_last.pk].thread_root = m_last.pk
    /\ m_db.messages[m_last.pk].edited
    /\ Cardinality(NotificationsOf(m_last.pk)) = 1

\* The last operation saved an existing message; Stored is the row before it.
LastWasEdit == m_last.op = "edit"
StoredBefore == m_last.before.messages[m_last.pk]

\* C4: saving an existing message with a different content and an editor
\* attached adds exactly one history row, with the previously stored content
\* and that editor, and leaves the message edited, with last_edited_at set and
\* last_edited_by = that editor.
C4_EditLogsHistory ==
    (LastWasEdit /\ m_last.content # StoredBefore.content /\ m_last.editor # Null) =>
        LET old == m_last.before.history
            new == m_db.history
            row == m_db.messages[m_last.pk]
        IN  /\ Len(new) = Len(old) + 1
            /\ SubSeq(new, 1, Len(old)) = old
            /\ new[Len(new)].message = m_last.pk
            /\ new[Len(new)].old_content = StoredBefore.content
            /\ new[Len(new)].editor = m_last.editor
            /\ row.content = m_last.content
            /\ row.edited
            /\ row.last_edited_at # NoTime
            /\ row.last_edited_by = m_last.editor

\* An edit by a user other than the one who edited the message before.
C4_Witness ==
    /\ LastWasEdit
    /\ m_last.content # StoredBefore.content
    /\ m_last.editor # Null
    /\ StoredBefore.last_edited_by \notin {Null, m_last.editor}
    /\ Len(m_db.history) = 2

\* C5: saving an existing message with the stored content adds no history row
\* and leaves edited, last_edited_at and last_edited_by as they were.
C5_SameContentNoHistory ==
    (LastWasEdit /\ m_last.content = StoredBefore.content) =>
        /\ m_db.history = m_last.before.history
        /\ m_db.messages[m_last.pk].edited = StoredBefore.edited
        /\ m_db.messages[m_last.pk].last_edited_at = StoredBefore.last_edited_at
        /\ m_db.messages[m_last.pk].last_edited_by = StoredBefore.last_edited_by

\* A save of the stored content, with an editor attached, of a message that
\* another user had edited before, and of one never edited.
C5_Witness ==
    /\ LastWasEdit
    /\ m_last.content = StoredBefore.content
    /\ m_last.editor # Null
    /\ \/ StoredBefore.last_edited_by \notin {Null, m_last.editor}
       \/ ~StoredBefore.edited

\* The last operation deleted a user and its transaction has committed.
UserDeleted == m_last.op = "delete" /\ ~m_open

\* Message i of the tables as they were before the deletion has user u as
\* sender or receiver.
SentOrReceived(i, u) ==
    m_last.before.messages[i].sender = u \/ m_last.before.messages[i].receiver = u

\* Message i and the messages it replies to, along parent_message.
RECURSIVE Ancestors(_)
Ancestors(i) ==
    IF m_last.before.messages[i].parent_message = NoId THEN {i}
    ELSE {i} \cup Ancestors(m_last.before.messages[i].parent_message)

\* A history row is identified by its edited_at, which no two rows share.
HistoryAt(t) == {i \in 1..Len(m_db.history) : m_db.history[i].edited_at = t}

\* Nothing of user u is left: no notification to u, no message from or to u,
\* and the surviving history rows that u edited have a null editor and their
\* old_content.
NothingLeftOf(u) ==
    /\ \A i \in 1..Len(m_db.notifications) : m_db.notifications[i].user # u
    /\ \A i \in DOMAIN m_db.messages :
          m_db.messages[i].sender # u /\ m_db.messages[i].receiver # u
    /\ \A i \in 1..Len(m_db.history) : m_db.history[i].editor # u
    /\ \A k \in 1..Len(m_last.before.history) :
          LET h == m_last.before.history[k]
          IN  h.editor = u =>
                 \A i \in HistoryAt(h.edited_at) :
                    m_db.history[i] = [h EXCEPT !.editor = Null]

\* The rows of the messages of `kept` are as before the deletion: the messages
\* themselves (u is not their last editor), their notifications to other
\* users and their history rows edited by others.
Unchanged(kept, u) ==
    /\ \A i \in kept :
          m_last.before.messages[i].last_edited_by # u =>
             i \in DOMAIN m_db.messages /\ m_db.messages[i] = m_last.before.messages[i]
    /\ \A k \in 1..Len(m_last.before.notifications) :
          LET n == m_last.before.notifications[k]
          IN  (n.message \in kept /\ n.user # u) =>
                 \E i \in 1..Len(m_db.notifications) : m_db.notifications[i] = n
    /\ \A k \in 1..Len(m_last.before.history) :
          LET h == m_last.before.history[k]
          IN  (h.message \in kept /\ h.editor # u) =>
                 \E i \in 1..Len(m_db.history) : m_db.history[i] = h

\* C6 as claimed: after the deletion of a user has committed nothing of the
\* user is left, and every message that has other users as sender and
\* receiver is unchanged, with its notifications and history rows.
C6_AsClaimed ==
    UserDeleted =>
        /\ NothingLeftOf(m_last.user)
        /\ Unchanged({i \in DOMAIN m_last.before.messages :
                         ~SentOrReceived(i, m_last.user)}, m_last.user)

\* A foreign key to a user, after the deletion of u under SET_NULL.
NullIf(ref, u) == IF ref = u THEN Null ELSE ref

\* C6 (amended): after the deletion of a user has committed nothing of the
\* user is left; the messages deleted are those the user sent or received and
\* the replies to them along parent_message, with their notifications and
\* history rows; every other message, notification and history row is as it
\* was, but for last_edited_by and editor, which are null where they were the
\* user.
C6_UserCleanup ==
    UserDeleted =>
        LET u == m_last.user
            old == m_last.before
            kept == {i \in DOMAIN old.messages :
                        \A a \in Ancestors(i) : ~SentOrReceived(a, u)}
            keptNotifications == SelectSeq(old.notifications, LAMBDA n : n.message \in kept)
            keptHistory == SelectSeq(old.history, LAMBDA h : h.message \in kept)
        IN  /\ NothingLeftOf(u)
            /\ DOMAIN m_db.messages = kept
            /\ \A i \in kept :
                  m_db.messages[i] =
                     [old.messages[i] EXCEPT !.last_edited_by = NullIf(@, u)]
            /\ m_db.notifications = keptNotifications
            /\ Len(m_db.history) = Len(keptHistory)
            /\ \A i \in 1..Len(keptHistory) :
                  m_db.history[i] = [keptHistory[i] EXCEPT !.editor = NullIf(@, u)]

\* Under ATOMIC_REQUESTS a user was deleted who had received a message, was
\* the editor of a history row of a surviving message and whose message had
\* a reply between two other users.
C6_Witness ==
    /\ UserDeleted /\ m_atomic
    /\ \E i \in DOMAIN m_last.before.messages : m_last.before.messages[i].receiver = m_last.user
    /\ \E i \in DOMAIN m_last.before.messages :
          /\ ~SentOrReceived(i, m_last.user)
          /\ i \notin DOMAIN m_db.messages
    /\ \E k \in 1..Len(m_last.before.notifications) :
          m_last.before.notifications[k].user = m_last.user

\* The history rows of message pk, in the order of their creation.
HistoryOf(pk) == SelectSeq(m_db.history, LAMBDA h : h.message = pk)

\* C18: for every message the old_content of its history rows, in creation
\* order, are the contents that were stored for it one after another, all
\* but the current one: there is one row for each save that changed the
\* content, the last row holds the content stored before the latest change,
\* and edited is set exactly when the message has a row.
C18_HistoryIsEarlierContents ==
    \A pk \in DOMAIN m_db.messages :
        LET rows == HistoryOf(pk)
            written == m_written[pk]
        IN  /\ Len(rows) = Len(written) - 1
            /\ \A i \in 1..Len(rows) : rows[i].old_content = written[i]
            /\ written[Len(written)] = m_db.messages[pk].content
            /\ m_db.messages[pk].edited <=> rows # <<>>

\* A message was edited and then edited back: its two rows hold the original
\* and the edited content, in this order.
C18_Witness ==
    \E pk \in DOMAIN m_db.messages :
        /\ m_written[pk] = <<"original", "edited content", "original">>
        /\ Len(HistoryOf(pk)) = 2
        /\ HistoryOf(pk)[2].old_content = "edited content"
        /\ m_db.messages[pk].edited

\* C19 (as claimed): when no edit is in progress, every content that was
\* stored for the message and then overwritten is the old_content of one of
\* its history rows, and there are no more rows than updates stored.
C19_AsClaimed ==
    (\A t \in MsgThreads : m_threads[t].pc = "idle") =>
        LET rows == HistoryOf(EditedPk)
            written == m_written[EditedPk]
        IN  /\ \A i \in 1..(Len(written) - 1) :
                  \E j \in 1..Len(rows) : rows[j].old_content = written[i]
            /\ Len(rows) <= m_threads["T1"].updates + m_threads["T2"].updates

(***************************************************************************)
(* Claims on the chats viewsets (SpecChat)                                 *)
(***************************************************************************)
\* The messages of the conversations user takes part in.
VisibleTo(user) ==
    {i \in Message_objects(c_db) : user \in c_db.convs[c_db.messages[i].conversation]}

\* C9: the list MessageViewSet returns to an authenticated user holds exactly
\* the messages of the conversations the user participates in (of the one
\* conversation named by a valid ?conversation= id), each once, ordered by
\* sent_at; an unauthenticated request gets no message.
C9_VisibleMessages ==
    c_last.op = "list" =>
        LET rows == c_last.rows
            param == c_last.data.param
            listed == {rows[i] : i \in 1..Len(rows)}
        IN  IF c_last.user = Anonymous THEN rows = <<>>
            ELSE IF param.given /\ ~param.uuid THEN rows = <<>> /\ c_last.status = 400
            ELSE /\ c_last.status = 200
                 /\ listed = IF param.given
                             THEN {i \in VisibleTo(c_last.user) :
                                      c_db.messages[i].conversation = param.id}
                             ELSE VisibleTo(c_last.user)
                 /\ Cardinality(listed) = Len(rows)
                 /\ \A i, j \in 1..Len(rows) :
                       i < j => c_db.messages[rows[i]].sent_at <= c_db.messages[rows[j]].sent_at

\* A user was listed one message of an own conversation while a message of
\* a conversation without the user exists, and the user did not ask for one
\* conversation.
C9_Witness ==
    /\ c_last.op = "list"
    /\ c_last.status = 200
    /\ ~c_last.data.param.given
    /\ Len(c_last.rows) = 1
    /\ Cardinality(Message_objects(c_db)) = 2
    /\ \E i \in Message_objects(c_db) :
          c_last.user \notin c_db.convs[c_db.messages[i].conversation]

\* C10: a POST to MessageViewSet stores a message only if the requesting user
\* is a participant of the target conversation; otherwise it is denied and
\* nothing is stored. The stored message has sender = the requesting user,
\* whatever sender_id the payload names.
C10_CreateByParticipant ==
    c_last.op = "post" =>
        LET data == c_last.data
            participant == /\ data.conversation \in DOMAIN c_db.convs
                           /\ c_last.user \in c_db.convs[data.conversation]
        IN  /\ c_last.status = 201 =>
                 /\ participant
                 /\ Len(c_db.messages) = Len(c_last.before) + 1
                 /\ SubSeq(c_db.messages, 1, Len(c_last.before)) = c_last.before
                 /\ c_db.messages[Len(c_db.messages)].sender = c_last.user
                 /\ c_db.messages[Len(c_db.messages)].conversation = data.conversation
            /\ c_last.status # 201 => c_db.messages = c_last.before
            /\ ~participant => c_last.status \in {400, 401, 403}

\* A participant posted with the sender_id of another user and the message
\* was stored.
C10_Witness ==
    /\ c_last.op = "post"
    /\ c_last.status = 201
    /\ c_last.data.sender_id \notin {NoSender, c_last.user}

\* The users a payload names, position by position.
NamedUsers(ids) == [i \in 1..Len(ids) |-> ToUser(ids[i])]

\* The payload, with the requester added, names fewer than 2 participants or
\* names one participant twice.
TooFewOrTwice(ids, user) ==
    LET named == NamedUsers(ids)
    IN  \/ Cardinality({named[i] : i \in 1..Len(named)} \cup {user}) < 2
        \/ \E i, j \in 1..Len(named) : i # j /\ named[i] = named[j]

\* C11: a POST /conversations/ that is answered 201 stores one conversation,
\* whose participants are the users named and the requester, at least 2 of
\* them; a payload that names fewer than 2 participants with the requester, or
\* one participant twice, is rejected; a rejected request stores nothing.
C11_ConversationParticipants ==
    [][c_last'.op = "conversation" =>
         LET user == c_last'.user
             ids == c_last'.data.participant_ids
             named == NamedUsers(ids)
             stored == {named[i] : i \in 1..Len(named)} \cup {user}
         IN  /\ c_db'.messages = c_db.messages
             /\ TooFewOrTwice(ids, user) => c_last'.status # 201
             /\ c_last'.status = 201 =>
                   /\ c_db'.convs = Append(c_db.convs, stored)
                   /\ user \in stored
                   /\ Cardinality(stored) >= 2
             /\ c_last'.status # 201 => c_db'.convs = c_db.convs]_vars

\* A conversation was created by a requester the payload did not name, next to
\* one whose request was rejected for naming the requester twice.
C11_Witness ==
    /\ c_last.op = "conversation"
    /\ c_last.status = 201
    /\ \A i \in 1..Len(c_last.data.participant_ids) :
          ToUser(c_last.data.participant_ids[i]) # c_last.user
    /\ Len(c_db.convs) >= 1
    /\ c_last.user \in c_db.convs[Len(c_db.convs)]

(***************************************************************************)
(* Claims on the time restriction (SpecTime)                               *)
(***************************************************************************)
MinuteOfDay(t) == 60 * t[1] + t[2]

\* C7: with open < close, a request to a restricted path is forwarded iff
\* open <= local time < close and is answered 403 otherwise; a request to any
\* other path is always forwarded.
C7_OpenHours ==
    (ta_last.status # 0 /\ ta_config[1] < ta_config[2]) =>
        LET restricted == \/ Contains(ta_last.path, <<"/api", "/messages">>)
                          \/ Contains(ta_last.path, <<"/api", "/conversations">>)
            inHours == /\ 60 * ta_config[1] <= MinuteOfDay(ta_last.now)
                       /\ MinuteOfDay(ta_last.now) < 60 * ta_config[2]
        IN  /\ restricted => (ta_last.forwarded <=> inHours)
            /\ ~restricted => ta_last.forwarded
            /\ ta_last.forwarded <=> ta_last.status # 403

\* A request to a restricted path at the closing hour exactly was answered 403.
C7_Witness ==
    /\ ta_last.status # 0
    /\ ta_config = DefaultHours
    /\ ta_last.now = <<21, 0>>
    /\ ta_last.path = MessagesPath
    /\ ta_last.status = 403

(***************************************************************************)
(* Claims on with_db_connection and retry_on_failure (SpecRetry)           *)
(***************************************************************************)
\* C12 (as claimed): the wrapped function is run at most retries times in
\* all; no run follows one that returned, whose result is the wrapper's; when
\* retries runs have raised the wrapper raises, and what it raises is the
\* exception of its last run.
C12_AsClaimed ==
    LET runs == Runs(d_events)
        last == runs[Len(runs)]
    IN  /\ Len(runs) <= retries
        /\ \A i \in 1..(Len(runs) - 1) : runs[i].out.kind = "raise"
        /\ (runs # <<>> /\ d_pc \in {"finally", "idle"}) =>
              /\ last.out.kind = "return" => d_outcome = last.out
              /\ last.out.kind = "raise" => d_outcome = Raise(last.out.exc, Len(runs))
        /\ (Len(runs) = retries /\ \A i \in 1..Len(runs) : runs[i].out.kind = "raise") =>
              d_pc \in {"finally", "idle"}

\* C14: the wrapped function only runs on the open connection of its call,
\* the same one in every attempt; the connection is not closed while attempts
\* may follow, and once the call has ended it has been closed exactly once,
\* after the last run, and the caller has the result or the exception of
\* that run.
C14_ConnectionClosedOnce ==
    LET runs == Runs(d_events)
    IN  /\ \A i \in 1..Len(runs) : runs[i].open /\ runs[i].conn = conn.id
        /\ conn.closes = Calls(d_events, "close")
        /\ d_pc \in {"func", "sleep", "finally"} => conn.open /\ conn.closes = 0
        /\ (d_pc = "idle" /\ d_events # <<>>) =>
              /\ ~conn.open
              /\ conn.closes = 1
              /\ d_events[Len(d_events)].ev = "close"
              /\ d_outcome.kind = runs[Len(runs)].out.kind
              /\ d_outcome.exc = runs[Len(runs)].out.exc
              /\ d_outcome.value = runs[Len(runs)].out.value

\* A call whose function ran three times on its connection and raised each
\* time has ended: the connection is closed and the caller has the exception.
C14_Witness ==
    /\ d_pc = "idle"
    /\ Len(Runs(d_events)) = 3
    /\ d_outcome.kind = "raise"
    /\ conn.closes = 1

(***************************************************************************)
(* Claims on transactional (SpecTx)                                        *)
(***************************************************************************)
\* A call through transactional has ended after its function ran.
TxEnded == d_pc = "idle" /\ d_events # <<>>

\* How the i-th call of method ended, in the call that has ended.
MethodCalls(method) == SelectSeq(d_events, LAMBDA e : e.ev = method)

\* C13 (as claimed): after a normal return of the function commit was called
\* exactly once and rollback never; after a raise rollback was called, commit
\* never, and the caller has the function's exception.
C13_AsClaimed ==
    TxEnded =>
        LET out == d_events[1].out
        IN  /\ out.kind = "return" =>
                  Calls(d_events, "commit") = 1 /\ Calls(d_events, "rollback") = 0
            /\ out.kind = "raise" =>
                  /\ Calls(d_events, "rollback") >= 1
                  /\ Calls(d_events, "commit") = 0
                  /\ d_outcome = Raise(out.exc, 1)

\* C13 (amended): after a normal return commit was called exactly once; when
\* it succeeded rollback was not called and the caller has the result, and
\* when it raised rollback was called once and the caller has the commit's
\* exception. After the function raised an Exception rollback was called
\* once, commit never, and the caller has that exception, also when the
\* rollback failed. An exception that is not an Exception reaches the caller
\* with neither commit nor rollback called.
C13_CommitOrRollback ==
    TxEnded =>
        LET out == d_events[1].out
            commits == MethodCalls("commit")
            rollbacks == MethodCalls("rollback")
        IN  /\ d_events[1].ev = "func"
            /\ out.kind = "return" =>
                  /\ Len(commits) = 1
                  /\ commits[1].out.kind = "return" =>
                        rollbacks = <<>> /\ d_outcome = Return(<<>>)
                  /\ commits[1].out.kind = "raise" =>
                        Len(rollbacks) = 1 /\ d_outcome = Raise(commits[1].out.exc, 2)
            /\ (out.kind = "raise" /\ IsException(out.exc)) =>
                  /\ Len(rollbacks) = 1
                  /\ commits = <<>>
                  /\ d_outcome = Raise(out.exc, 1)
            /\ (out.kind = "raise" /\ ~IsException(out.exc)) =>
                  /\ rollbacks = <<>>
                  /\ commits = <<>>
                  /\ d_outcome = Raise(out.exc, 1)

\* The function raised ValueError after its UPDATE, the rollback failed as
\* well, and the call has ended with the ValueError; nothing was committed.
C13_Witness ==
    /\ TxEnded
    /\ d_events[1].out.kind = "raise"
    /\ d_events[1].out.exc = "ValueError"
    /\ Calls(d_events, "rollback") = 1
    /\ MethodCalls("rollback")[1].out.kind = "raise"
    /\ d_outcome = Raise("ValueError", 1)
    /\ users_db.committed # d_args.new_email

(***************************************************************************)
(* Claims on cache_query (SpecCache)                                       *)
(***************************************************************************)
\* C15 (as claimed): a call that returns with a (query, params) that has
\* returned before returns the rows of the first such return and does not run
\* the wrapped function.
C15_AsClaimed ==
    d_outcome.kind = "return" =>
        LET first == d_first[[query |-> d_args.query, params |-> d_args.params]]
        IN  /\ d_outcome.value = first.rows
            /\ first.returned = 2 => d_events = <<>>

=============================================================================
